---- MODULE Spec2Model ----
(***************************************************************************)
(* Model of one crawl run of c4ai-scrpr: run_crawl (app/main.py) with its  *)
(* worker pool, the persistent job queue, the per-job state machine of     *)
(* _process_job, the validate/dedup pipeline, the per-run checkpoint file, *)
(* the metrics registry and the end-of-run commit.                         *)
(*                                                                         *)
(* asyncio is cooperative: a worker runs without interruption between two  *)
(* awaits that really suspend.  Every action below is one such stretch.    *)
(* The page loop of _process_job contains no await at all; it is split     *)
(* into one step per page and per candidate, and the variable cpu keeps    *)
(* every other task from running in between.                               *)
(*                                                                         *)
(* Spec is that one run.  The other specifications of the module look at   *)
(* parts the run takes as given or at what lies around it: SpecFetch is    *)
(* fetch_document with the robots cache and the conditional cache          *)
(* (app/fetch), SpecStore the relational store, SpecDedup the Deduplicator *)
(* on its own, SpecRuns the scheduler loop that starts one run after the   *)
(* other, SpecQueue the run from the construction of its JobQueue,         *)
(* SpecPipeline and SpecStats the run with a history of its page loop and  *)
(* with one job per source.  SpecCache, SpecCheckpoint, SpecPlan and       *)
(* SpecSources take one component at a time; SpecCacheFile and SpecRobots  *)
(* take the conditional cache and the robots cache under concurrent calls. *)
(* A specification leaves the variables of the others at rest.             *)
(***************************************************************************)
EXTENDS Integers, Sequences, FiniteSets, TLC

\* ---------------------------------------------------------------- bounds
\* Runs with up to MaxConcurrency workers crawl pages that hold up to
\* MaxCandsRun candidate entities in total; runs with more workers, up to
\* MaxPool, crawl pages without candidates.
MaxConcurrency == 2
MaxPool == 3
MaxJobs == 2
MaxExtra == 1
MaxCands == 2
MaxDay == 3
MaxCandsRun == 4
MaxParseFailures == 1

\* ------------------------------------------------------ program constants
DefaultMaxAttempts == 3

\* None of Python; also the "unbound" local variable job of a worker
Null == 0

\* ------------------------------------------------------------- job (jobs.py)
JobKinds ==
    { [source_id |-> 1, entity_type |-> "events"],
      [source_id |-> 1, entity_type |-> "sports"] }

\* plan_jobs keeps the order of the sources; the first one is an events source
Plans(n) == { kinds \in [1..n -> JobKinds] : kinds[1].entity_type = "events" }

Types == {"events", "sports"}

NewJob(id, kind) ==
    [ job_id |-> id, source_id |-> kind.source_id, entity_type |-> kind.entity_type,
      url |-> id, attempts |-> 0, max_attempts |-> DefaultMaxAttempts,
      status |-> "pending" ]

mark_started(j) == [j EXCEPT !.status = "in_progress", !.attempts = @ + 1]

mark_succeeded(j) == [j EXCEPT !.status = "succeeded"]

mark_failed(j) ==
    [j EXCEPT !.status = IF j.attempts >= j.max_attempts THEN "failed" ELSE "retry"]

should_retry(j) == j.status = "retry" /\ j.attempts < j.max_attempts

\* ------------------------------------------------------------ entities
\* An entity is a Python dict: a function from field names to values.  Values
\* are integers; Null is None (and the empty string, which the code treats
\* alike through "x or y").  "type" holds TypeCode of the entity type.  A start
\* is 10 * day + hour; BadDate is a string isoparse cannot parse.
BadDate == -1
Epoch == 1
TzUTC == 1
EmptyList == 1

TypeCode(t) == IF t = "events" THEN 1 ELSE 2

TypeOfCode(c) == IF c = 1 THEN "events" ELSE "sports"

\* dict.get(key): None when the key is absent
Get(e, k) == IF k \in DOMAIN e THEN e[k] ELSE Null

\* Python's "a or b"
Or(a, b) == IF a # Null THEN a ELSE b

\* the shapes a page can yield: same event on several days and hours, a
\* source-introduced field, a missing venue, an unparseable date
CandShapes ==
    { [title |-> 1, start |-> 10 * d, venue_name |-> 1, utm |-> Null] : d \in 1..MaxDay }
    \cup { [title |-> 1, start |-> 18, venue_name |-> 1, utm |-> Null],
           [title |-> 1, start |-> 10, venue_name |-> 1, utm |-> 1],
           [title |-> 1, start |-> 10, venue_name |-> Null, utm |-> Null],
           [title |-> 1, start |-> BadDate, venue_name |-> 1, utm |-> Null] }

\* extract_entities: every candidate carries the type of the job and its
\* source_id; the rule payload always has the listed keys, possibly None
Candidate(shape, entity_type, source_id) ==
    LET base == [k \in {"type", "source_id", "title", "start", "venue_name", "timezone"} |->
                    CASE k = "type" -> TypeCode(entity_type)
                      [] k = "source_id" -> source_id
                      [] k = "title" -> shape.title
                      [] k = "start" -> shape.start
                      [] k = "venue_name" -> shape.venue_name
                      [] OTHER -> Null]
    IN IF shape.utm = Null THEN base ELSE base @@ ("utm" :> shape.utm)

\* normalize_datetimes raises when isoparse rejects start
NormaliseRaises(e) == Get(e, "start") = BadDate

\* normalize_datetimes backfills timezone from the parsed start; map_taxonomy
\* always leaves a taxonomy list.  The other rewrites (contacts, price, urls)
\* touch fields that no candidate shape carries.
Normalise(e) ==
    LET tz == IF Get(e, "timezone") = Null /\ Get(e, "start") # Null
              THEN ("timezone" :> TzUTC) @@ e ELSE e
    IN ("taxonomy" :> EmptyList) @@ tz

\* the schema files are config/schemas/<type>.schema.json
SchemaProperties(t) ==
    {"source_id", "title", "venue_name", "address", "city", "country", "time_slots",
     "timezone", "start", "end", "price_text", "price_value", "organizer", "url",
     "emails", "phones", "images", "taxonomy"}
    \cup (IF t = "sports" THEN {"sport_type"} ELSE {})

SchemaRequired(t) == {"source_id", "title", "start", "venue_name"}

\* SchemaRegistry.validate(...).ok
validate(t, payload) == SchemaRequired(t) \subseteq DOMAIN payload

\* prune that keeps every field
prune_nothing(t, payload) == payload

\* SchemaRegistry.prune
prune(t, payload) == [k \in DOMAIN payload \cap SchemaProperties(t) |-> payload[k]]

\* main.py 181-184: prune, restore timezone, drop None values
CleanEntity(t, e) ==
    LET p == prune(t, e)
        z == IF Get(p, "timezone") = Null
             THEN ("timezone" :> Get(e, "timezone")) @@ p ELSE p
    IN [k \in {x \in DOMAIN z : z[x] # Null} |-> z[k]]

\* ------------------------------------------------------ dedup (keys.py)
_bucket(start) == (start \div 10) * 10

\* the SHA-1 of the joined payload is kept as the payload itself
entity_key(e) ==
    << Get(e, "title"),
       _bucket(Or(Get(e, "start"), Or(Get(e, "end"), Epoch))),
       Or(Get(e, "venue_name"), Get(e, "address")),
       Get(e, "city"),
       Get(e, "source_id") >>

\* near keys of the following day only
nearby_keys_forward(e) ==
    LET start == Or(Get(e, "start"), Get(e, "end"))
    IN IF start = Null THEN {}
       ELSE { entity_key(("start" :> (start + 10)) @@ e) }

nearby_keys(e) ==
    LET start == Or(Get(e, "start"), Get(e, "end"))
    IN IF start = Null THEN {}
       ELSE { entity_key(("start" :> (start + 10 * delta)) @@ e) : delta \in {-1, 1} }

is_duplicate(seen, e) ==
    \/ entity_key(e) \in seen
    \/ nearby_keys(e) \cap seen # {}

\* Deduplicator.remember: _seen by its keys
remember(seen_keys, e) == seen_keys \cup {entity_key(e)}

\* Decide without the dedup check and without the index lookup
DecideAlwaysNew(seen, index, e) == "new"

\* main.py 192-208: what becomes of a validated candidate
Decide(seen, index, e) ==
    IF is_duplicate(seen, e) THEN "duplicate"
    ELSE IF entity_key(e) \in DOMAIN index THEN "merge"
    ELSE "new"

\* EntityMerger.merge: <<merged, mutated>>
merge(existing, candidate) ==
    LET change == {k \in DOMAIN candidate : candidate[k] # Null /\ Get(existing, k) # candidate[k]}
    IN << [k \in DOMAIN existing \cup change |->
              IF k \in change THEN candidate[k] ELSE existing[k]],
          change # {} >>

\* ------------------------------------------- checkpoint (checkpoint.py)
\* load_checkpoint's None, kept as a record so that it compares with records
NoCheckpoint ==
    [job_id |-> Null, url_cursor |-> Null, page_idx |-> -1, discovered_urls_hash |-> << >>]

JobCheckpoint(job_id, url_cursor, page_idx, hash) ==
    [job_id |-> job_id, url_cursor |-> url_cursor, page_idx |-> page_idx,
     discovered_urls_hash |-> hash]

RECURSIVE Insert(_, _)
Insert(x, s) ==
    IF s = << >> THEN << x >>
    ELSE IF x <= Head(s) THEN << x >> \o s
    ELSE << Head(s) >> \o Insert(x, Tail(s))

RECURSIVE sorted(_)
sorted(s) == IF s = << >> THEN << >> ELSE Insert(Head(s), sorted(Tail(s)))

\* main.py 156: sha1("|".join(sorted(urls))), kept as the sorted list itself
discovered_hash(urls) == sorted(urls)

\* start_page that honours a checkpoint of the job whatever its URL hash
start_page_any_hash(checkpoint_state, job_id, hash) ==
    IF checkpoint_state # NoCheckpoint /\ checkpoint_state.job_id = job_id
    THEN checkpoint_state.page_idx + 1
    ELSE 0

\* main.py 157-159
start_page(checkpoint_state, job_id, hash) ==
    IF /\ checkpoint_state # NoCheckpoint
       /\ checkpoint_state.job_id = job_id
       /\ checkpoint_state.discovered_urls_hash = hash
    THEN checkpoint_state.page_idx + 1
    ELSE 0

\* --------------------------------------------------- metrics (metrics.py)
\* the counters the job pipeline bumps
MetricNames ==
    {"parse_failures", "validates_failed", "entities_new", "entities_updated",
     "quarantine_rows", "duplicates"}

incr_down(m, name) == [m EXCEPT ![name] = @ - 1]

incr(m, name) == [m EXCEPT ![name] = @ + 1]

RECURSIVE incrAll(_, _)
incrAll(m, names) ==
    IF names = << >> THEN m ELSE incrAll(incr(m, Head(names)), Tail(names))

\* ---------------------------------------------------------------- state
VARIABLES
    concurrency,   \* args.concurrency
    job,           \* the planned Job objects, by job_id
    queue,         \* JobQueue._queue: job_ids in FIFO order
    mirror,        \* the JSONL mirror file of the queue
    unfinished,    \* asyncio.Queue._unfinished_tasks
    worker,        \* per worker task: position and local variables
    cpu,           \* the worker inside the await-free page loop, or Null
    supply,        \* input: candidates the pages of this run still hold
    checkpoint,    \* content of <checkpoints>/<run_id>.json, or NoCheckpoint
    seen,          \* Deduplicator._seen (its keys)
    results,       \* results: entity type -> list of accepted entities
    results_index, \* results_index: entity type -> dedup key -> entity
    metrics,       \* MetricsRegistry._counters
    source_stats,  \* source_id -> rows_new, rows_updated, rejects
    quarantine,    \* the reject_*.json files, oldest first
    run,           \* run_crawl: "running", "done" or "raised"; committed tiers; manifest
    reenq,         \* history: how often each job was re-enqueued by the handler
    considered     \* history: candidates that entered the per-entity pipeline

\* app/fetch: fetch_document and the caches it works with
VARIABLES
    log_level,         \* input: the lowest level the stdlib loggers let through
    robots_cache,      \* RobotsCache._cache: netloc -> disallowed paths
    conditional_index, \* ETagCache._index: url -> etag, last_modified
    fetch_metrics,     \* MetricsRegistry._counters, the counters of the fetcher
    snapshots,         \* number of snapshot files in the raw tier
    call,              \* the fetch_document call in progress, or the last one
    net                \* history: requests sent, robots.txt fetches and their failures

\* app/storage/partition.py: the relational store
VARIABLES
    tables,            \* events.db: entity type -> the rows of its table, in rowid order
    last_write         \* history: the last write_sqlite call and the table it found

\* app/quality/dedup.py on its own
VARIABLES
    probe              \* a Deduplicator, two entities, and what it answered

\* app/orchestrator/schedule_loop.py: one run after the other
VARIABLES
    sched,             \* run_schedule_loop: ticks, configured jobs, position, clock
    run_id,            \* args.run_id of the run in progress: <<source_type, timestamp>>
    checkpoint_files,  \* the checkpoints directory between runs: run_id -> content
    manifest_files,    \* the run_ids that have a file run-<run_id>.json
    site,              \* input: the source's server: pagination links, ETag of its pages
    prev,              \* history: the run before the one in progress
    served             \* history: requests of the run in progress and their 304 answers

\* the parts taken one at a time: the conditional cache, the checkpoint
\* files, the planner and the source loader
VARIABLES
    latest_update,     \* history: url -> the arguments of the last ETagCache.update
    ckpt_texts,        \* the checkpoints directory: run_id -> text of <run_id>.json
    ckpt_call,         \* the last checkpoint call and what it returned
    planner,           \* a plan_jobs call: its arguments and the jobs it returned
    loader,            \* a registry file, and what load_sources or validate_sources made of it
    pipeline_log       \* history of the page loop: the last candidate, the pages an attempt failed on

\* what several tasks share: the queue at the start of run_crawl, the file of
\* the conditional cache, the lock of the robots cache
VARIABLES
    startup,           \* run_crawl 274-277: the mirror it found, the jobs it has enqueued
    etag_file,         \* bronze/conditional.json: its content, the handles open for writing
    etag_writers,      \* the ETagCache.update calls: position, URL, the text to write
    robots_lock,       \* RobotsCache._lock: the allowed() call that holds it, or Null
    robots_calls       \* the allowed() calls: position, host, answer

crawlVars == << concurrency, job, queue, mirror, unfinished, worker, cpu, supply, checkpoint,
                seen, results, results_index, metrics, source_stats, quarantine, run, reenq,
                considered >>

fetchVars == << log_level, robots_cache, conditional_index, fetch_metrics, snapshots, call, net >>

storeVars == << tables, last_write >>

runsVars == << sched, run_id, checkpoint_files, manifest_files, site, prev, served >>

unitVars == << latest_update, ckpt_texts, ckpt_call, planner, loader, pipeline_log >>

sharedVars == << startup, etag_file, etag_writers, robots_lock, robots_calls >>

vars == << crawlVars, fetchVars, storeVars, probe, runsVars, unitVars, sharedVars >>

\* what a specification that does not use these variables finds in them
FetchAtRest ==
    /\ log_level = "ERROR"
    /\ robots_cache = << >>
    /\ conditional_index = << >>
    /\ fetch_metrics = << >>
    /\ snapshots = 0
    /\ call = << >>
    /\ net = << >>

StoreAtRest ==
    /\ tables = << >>
    /\ last_write = << >>

ProbeAtRest == probe = << >>

RunsAtRest ==
    /\ sched = << >>
    /\ run_id = << >>
    /\ checkpoint_files = << >>
    /\ manifest_files = {}
    /\ site = << >>
    /\ prev = << >>
    /\ served = << >>

UnitAtRest ==
    /\ latest_update = << >>
    /\ ckpt_texts = << >>
    /\ ckpt_call = << >>
    /\ planner = << >>
    /\ loader = << >>
    /\ pipeline_log = << >>

SharedAtRest ==
    /\ startup = << >>
    /\ etag_file = << >>
    /\ etag_writers = << >>
    /\ robots_lock = Null
    /\ robots_calls = << >>

\* the variables Spec leaves at rest
outsideCrawl == << fetchVars, storeVars, probe, runsVars, unitVars, sharedVars >>

OutsideCrawlAtRest ==
    FetchAtRest /\ StoreAtRest /\ ProbeAtRest /\ RunsAtRest /\ UnitAtRest /\ SharedAtRest

Workers == 1..concurrency
JobIds == DOMAIN job

IdleWorker ==
    [pc |-> "dequeue", job |-> Null, checkpoint_state |-> NoCheckpoint,
     discovered |-> << >>, pending |-> << >>, pages |-> << >>, start_page |-> 0,
     idx |-> 0, remaining |-> 0, context |-> Null]

NoStats == [rows_new |-> 0, rows_updated |-> 0, rejects |-> 0]

\* run_crawl up to the creation of the worker tasks (main.py 238-330)
Init ==
    /\ concurrency \in 1..MaxPool
    /\ supply = IF concurrency <= MaxConcurrency THEN MaxCandsRun ELSE 0
    /\ \E n \in 1..MaxJobs : \E kinds \in Plans(n) :
           job = [id \in 1..n |-> NewJob(id, kinds[id])]
    /\ queue = [i \in 1..Cardinality(DOMAIN job) |-> i]
    /\ mirror = queue
    /\ unfinished = Len(queue)
    /\ worker = [w \in 1..concurrency |-> IdleWorker]
    /\ cpu = Null
    /\ checkpoint = NoCheckpoint
    /\ seen = {}
    /\ results = [t \in Types |-> << >>]
    /\ results_index = [t \in Types |-> << >>]
    /\ metrics = [n \in MetricNames |-> 0]
    /\ source_stats = << >>
    /\ quarantine = << >>
    /\ run = [pc |-> "running", committed |-> [t \in Types |-> << >>], manifests |-> << >>]
    /\ reenq = [id \in DOMAIN job |-> 0]
    /\ considered = 0
    /\ OutsideCrawlAtRest

\* ------------------------------------------------ JobQueue (queue.py)
\* a mirror file is the list of its lines; a line holds a job (here its
\* job_id) or is blank (Null)
\* _persist that leaves out the last job of the queue
_persist_short(items) == IF items = << >> THEN << >> ELSE SubSeq(items, 1, Len(items) - 1)

\* queue.py 37-47: the file is rewritten with one line per queued job
_persist(items) == [i \in 1..Len(items) |-> items[i]]

\* queue.py 24-35: the jobs of the non-blank lines, in file order
_load_from_disk(lines) == SelectSeq(lines, LAMBDA line : line # Null)

\* ------------------------------------------------- worker (main.py 292-328)
Running(w) == run.pc = "running" /\ cpu = Null /\ w \in Workers

\* 295: wait_for(queue.dequeue()) returns a job.  The loop has no other
\* statement, so the worker goes straight back to dequeue; the job it held
\* before is dropped.
Dequeue(w) ==
    /\ Running(w)
    /\ worker[w].pc = "dequeue"
    /\ queue # << >>
    /\ worker' = [worker EXCEPT ![w].job = Head(queue)]
    /\ queue' = Tail(queue)
    /\ mirror' = _persist(Tail(queue))
    /\ UNCHANGED << concurrency, supply, job, unfinished, cpu, checkpoint, seen, results,
                    results_index, metrics, source_stats, quarantine, run, reenq,
                    considered >>

\* 296-299: the 0.1 s timeout fires while the queue is not empty: continue
TimeoutContinue(w) ==
    /\ Running(w)
    /\ worker[w].pc = "dequeue"
    /\ queue # << >>
    /\ UNCHANGED vars

\* 323-328: the except clause (when the attempt raised) and the finally clause
\* of the worker.  enqueue and task_done do not suspend: the queue is unbounded
\* and the lock is never held across an await.  task_done raises ValueError
\* when there is no unfinished task left.
EndAttempt(w, j, raised, context) ==
    LET jf == IF raised THEN mark_failed(j) ELSE j
        again == raised /\ should_retry(jf)
        q == IF again THEN Append(queue, j.job_id) ELSE queue
        u == IF again THEN unfinished + 1 ELSE unfinished
    IN /\ job' = [job EXCEPT ![j.job_id] = jf]
       /\ queue' = q
       /\ mirror' = _persist(q)
       /\ reenq' = IF again THEN [reenq EXCEPT ![j.job_id] = @ + 1] ELSE reenq
       /\ unfinished' = IF u > 0 THEN u - 1 ELSE u
       /\ worker' = [worker EXCEPT ![w] =
              [IdleWorker EXCEPT !.pc = IF u > 0 THEN "done" ELSE "raised",
                                 !.job = j.job_id, !.context = context]]
       /\ cpu' = Null

\* 297-298, 300-301, 323-328: the queue is empty after a timeout and this
\* worker never got a job: job is unbound at line 301, the except clause
\* raises again at job.mark_failed, the finally clause calls task_done
BreakUnbound(w) ==
    /\ Running(w)
    /\ worker[w].pc = "dequeue"
    /\ queue = << >>
    /\ worker[w].job = Null
    /\ worker' = [worker EXCEPT ![w].pc = "raised"]
    /\ unfinished' = IF unfinished > 0 THEN unfinished - 1 ELSE unfinished
    /\ UNCHANGED << concurrency, supply, job, queue, mirror, cpu, checkpoint, seen, results,
                    results_index, metrics, source_stats, quarantine, run, reenq,
                    considered >>

\* 297-301, 323-328: break, then load_rule raises (unreadable rule file)
BreakRuleFails(w) ==
    /\ Running(w)
    /\ worker[w].pc = "dequeue"
    /\ queue = << >>
    /\ worker[w].job # Null
    /\ EndAttempt(w, job[worker[w].job], TRUE, Null)
    /\ UNCHANGED << concurrency, supply, checkpoint, seen, results, results_index, metrics,
                    source_stats, quarantine, run, considered >>

\* 297-303 and 113-119: break, load_rule, load_checkpoint, then _process_job
\* up to its first await: mark_started, set_context, source_stats.setdefault
BreakStart(w) ==
    /\ Running(w)
    /\ worker[w].pc = "dequeue"
    /\ queue = << >>
    /\ worker[w].job # Null
    /\ LET j == job[worker[w].job]
       IN /\ job' = [job EXCEPT ![j.job_id] = mark_started(j)]
          /\ worker' = [worker EXCEPT ![w] =
                 [IdleWorker EXCEPT !.pc = "fetch", !.job = j.job_id,
                                    !.checkpoint_state = checkpoint,
                                    !.context = j.job_id]]
          /\ source_stats' = IF j.source_id \in DOMAIN source_stats THEN source_stats
                             ELSE (j.source_id :> NoStats) @@ source_stats
    /\ UNCHANGED << concurrency, supply, queue, mirror, unfinished, cpu, checkpoint, seen,
                    results, results_index, metrics, quarantine, run, reenq, considered >>

\* ------------------------------------------ _process_job (main.py 113-219)
\* What fetch_document returns to the job (fetcher.py 59-113): the document,
\* None (robots disallow or 304) or an exception (transport error after the
\* retries, or raise_for_status on 4xx/5xx).  Its own counters, the conditional
\* cache and the raw tier are not part of this specification.
FetchOutcomes == {"snapshot", "none", "raises"}

FetchRaises(outcome) == outcome = "raises"

\* the pagination links discover_next_urls can find on the first page
ExtraUrls == 101..(100 + MaxExtra)

RECURSIVE SeqsUpTo(_, _)
SeqsUpTo(S, n) ==
    IF n = 0 THEN { << >> }
    ELSE LET shorter == SeqsUpTo(S, n - 1)
         IN shorter \cup { Append(q, x) : q \in shorter, x \in S }

ExtraLists == SeqsUpTo(ExtraUrls, MaxExtra)

\* 155-161: all URLs are fetched; hash, start_page, then the page loop, which
\* runs to the end of the attempt without an await
EnterPageLoop(wk, job_id) ==
    [wk EXCEPT !.pc = "page", !.idx = 0,
               !.start_page = start_page(wk.checkpoint_state, job_id,
                                         discovered_hash(wk.discovered))]

\* 119-153: the initial fetch returns
FetchInitial(w, outcome, extra_urls) ==
    /\ Running(w)
    /\ worker[w].pc = "fetch"
    /\ worker[w].pages = << >>
    /\ LET j == job[worker[w].job]
       IN CASE outcome = "snapshot" ->
                 LET wk == [worker[w] EXCEPT !.pages = << j.url >>,
                                             !.discovered = << j.url >> \o extra_urls,
                                             !.pending = extra_urls]
                 IN /\ worker' = [worker EXCEPT ![w] =
                           IF extra_urls = << >> THEN EnterPageLoop(wk, j.job_id) ELSE wk]
                    /\ cpu' = IF extra_urls = << >> THEN w ELSE Null
                    /\ UNCHANGED << job, queue, mirror, unfinished, reenq >>
            [] FetchRaises(outcome) ->
                 /\ extra_urls = << >>
                 /\ EndAttempt(w, j, TRUE, worker[w].context)
            [] OTHER ->
                 /\ extra_urls = << >>
                 /\ EndAttempt(w, mark_succeeded(j), FALSE, worker[w].context)
    /\ UNCHANGED << concurrency, supply, checkpoint, seen, results, results_index, metrics,
                    source_stats, quarantine, run, considered >>

\* 142-153: the fetch of the next pagination URL returns
FetchExtra(w, outcome) ==
    /\ Running(w)
    /\ worker[w].pc = "fetch"
    /\ worker[w].pending # << >>
    /\ LET j == job[worker[w].job]
           rest == Tail(worker[w].pending)
           wk == [worker[w] EXCEPT !.pending = rest,
                      !.pages = IF outcome = "snapshot"
                                THEN Append(@, Head(worker[w].pending)) ELSE @]
       IN IF FetchRaises(outcome)
          THEN EndAttempt(w, j, TRUE, Null)
          ELSE /\ worker' = [worker EXCEPT ![w] =
                      IF rest = << >> THEN EnterPageLoop(wk, j.job_id) ELSE wk]
               /\ cpu' = IF rest = << >> THEN w ELSE Null
               /\ UNCHANGED << job, queue, mirror, unfinished, reenq >>
    /\ UNCHANGED << concurrency, supply, checkpoint, seen, results, results_index, metrics,
                    source_stats, quarantine, run, considered >>

InLoop(w) == run.pc = "running" /\ w \in Workers /\ cpu = w

\* 161-163: a page below start_page is skipped
SkipPage(w) ==
    /\ InLoop(w)
    /\ worker[w].pc = "page"
    /\ worker[w].idx < Len(worker[w].pages)
    /\ worker[w].idx < worker[w].start_page
    /\ worker' = [worker EXCEPT ![w].idx = @ + 1]
    /\ UNCHANGED << concurrency, supply, job, queue, mirror, unfinished, cpu, checkpoint, seen,
                    results, results_index, metrics, source_stats, quarantine, run,
                    reenq, considered >>

\* 164-170, 174: extract_entities returns n candidates
Extract(w, n) ==
    /\ InLoop(w)
    /\ n <= supply
    /\ supply' = supply - n
    /\ worker[w].pc = "page"
    /\ worker[w].idx < Len(worker[w].pages)
    /\ worker[w].idx >= worker[w].start_page
    /\ worker' = [worker EXCEPT ![w] =
           IF n = 0 THEN [@ EXCEPT !.idx = @ + 1]
           ELSE [@ EXCEPT !.pc = "entity", !.remaining = n]]
    /\ UNCHANGED << concurrency, job, queue, mirror, unfinished, cpu, checkpoint, seen,
                    results, results_index, metrics, source_stats, quarantine, run,
                    reenq, considered >>

\* extract_entities raises and the exception leaves _process_job
ExtractRaisesEndsAttempt(w) ==
    /\ InLoop(w)
    /\ metrics["parse_failures"] < MaxParseFailures
    /\ worker[w].pc = "page"
    /\ worker[w].idx < Len(worker[w].pages)
    /\ worker[w].idx >= worker[w].start_page
    /\ metrics' = incr(metrics, "parse_failures")
    /\ EndAttempt(w, job[worker[w].job], TRUE, Null)
    /\ UNCHANGED << concurrency, supply, checkpoint, seen, results, results_index,
                    source_stats, quarantine, run, considered >>

\* 171-173: extract_entities raises (on at most MaxParseFailures pages of a run)
ExtractRaises(w) ==
    /\ InLoop(w)
    /\ metrics["parse_failures"] < MaxParseFailures
    /\ worker[w].pc = "page"
    /\ worker[w].idx < Len(worker[w].pages)
    /\ worker[w].idx >= worker[w].start_page
    /\ metrics' = incr(metrics, "parse_failures")
    /\ worker' = [worker EXCEPT ![w].idx = @ + 1]
    /\ UNCHANGED << concurrency, supply, job, queue, mirror, unfinished, cpu, checkpoint, seen,
                    results, results_index, source_stats, quarantine, run, reenq,
                    considered >>

\* one stats dict shared by all sources
bump_stats_shared(stats, source_id, field) ==
    [src \in DOMAIN stats |-> [stats[src] EXCEPT ![field] = @ + 1]]

\* 190, 203, 208: stats[field] += 1 on the dict of the job's source
bump_stats(stats, source_id, field) == [stats EXCEPT ![source_id][field] = @ + 1]

\* reject counters without quarantine_rows
RejectCountersShort == << "validates_failed" >>

\* 188-189: the counters bumped for a rejected candidate
RejectCounters == << "validates_failed", "quarantine_rows" >>

\* position of the entity stored under a key in a results list
PositionOf(list, key) == CHOOSE i \in 1..Len(list) : entity_key(list[i]) = key

\* after the last candidate of a page the loop moves to the next page
NextCandidate(wk) ==
    IF wk.remaining > 1 THEN [wk EXCEPT !.remaining = @ - 1]
    ELSE [wk EXCEPT !.pc = "page", !.remaining = 0, !.idx = @ + 1]

\* 174-215: one candidate entity goes through normalise, prune, validate,
\* dedup and merge.  A stage that raises ends the attempt: the exception
\* leaves both loops, passes the finally clause of _process_job (clear_context)
\* and reaches the except clause of the worker.
Entity(w, shape) ==
    /\ InLoop(w)
    /\ worker[w].pc = "entity"
    /\ considered' = considered + 1
    /\ LET j == job[worker[w].job]
           raw == Candidate(shape, j.entity_type, j.source_id)
           entity == Normalise(raw)
           t == TypeOfCode(entity["type"])
           clean == CleanEntity(t, entity)
           key == entity_key(clean)
           stats == source_stats[j.source_id]
           saved == JobCheckpoint(j.job_id, worker[w].pages[worker[w].idx + 1],
                                  worker[w].idx, discovered_hash(worker[w].discovered))
       IN IF NormaliseRaises(raw)
          THEN /\ EndAttempt(w, j, TRUE, Null)
               /\ UNCHANGED << checkpoint, seen, results, results_index, metrics,
                               source_stats, quarantine >>
          ELSE /\ worker' = [worker EXCEPT ![w] = NextCandidate(@)]
               /\ UNCHANGED << job, queue, mirror, unfinished, cpu, reenq >>
               /\ IF ~validate(t, clean)
                  THEN /\ quarantine' = Append(quarantine, entity)
                       /\ metrics' = incrAll(metrics, RejectCounters)
                       /\ source_stats' = bump_stats(source_stats, j.source_id, "rejects")
                       /\ UNCHANGED << checkpoint, seen, results, results_index >>
                  ELSE CASE Decide(seen, results_index[t], clean) = "duplicate" ->
                              /\ metrics' = incr(metrics, "duplicates")
                              /\ UNCHANGED << checkpoint, seen, results, results_index,
                                              source_stats, quarantine >>
                         [] Decide(seen, results_index[t], clean) = "merge" ->
                              LET m == merge(results_index[t][key], clean)
                              IN /\ seen' = seen \cup {key}
                                 /\ results_index' = [results_index EXCEPT ![t][key] = m[1]]
                                 /\ results' = [results EXCEPT
                                        ![t][PositionOf(results[t], key)] = m[1]]
                                 /\ metrics' = IF m[2] THEN incr(metrics, "entities_updated")
                                               ELSE metrics
                                 /\ source_stats' = IF m[2]
                                      THEN bump_stats(source_stats, j.source_id, "rows_updated")
                                      ELSE source_stats
                                 /\ checkpoint' = saved
                                 /\ UNCHANGED quarantine
                         [] OTHER ->
                              /\ seen' = seen \cup {key}
                              /\ results_index' = [results_index EXCEPT
                                     ![t] = (key :> clean) @@ @]
                              /\ results' = [results EXCEPT ![t] = Append(@, clean)]
                              /\ metrics' = incr(metrics, "entities_new")
                              /\ source_stats' = bump_stats(source_stats, j.source_id, "rows_new")
                              /\ checkpoint' = saved
                              /\ UNCHANGED quarantine
    /\ UNCHANGED << concurrency, supply, run >>

\* 216-219 and 327-328: all pages done: mark_succeeded, clear the checkpoint,
\* clear_context, task_done
Finish(w) ==
    /\ InLoop(w)
    /\ worker[w].pc = "page"
    /\ worker[w].idx = Len(worker[w].pages)
    /\ EndAttempt(w, mark_succeeded(job[worker[w].job]), FALSE, Null)
    /\ checkpoint' = NoCheckpoint
    /\ UNCHANGED << concurrency, supply, seen, results, results_index, metrics, source_stats,
                    quarantine, run, considered >>

\* ------------------------------------------------ run_crawl (main.py 330-357)
\* 331: gather re-raises the first exception of a worker; run_crawl is left
\* without commit or manifest and the event loop cancels the other workers
GatherRaises ==
    /\ run.pc = "running"
    /\ cpu = Null
    /\ \E w \in Workers : worker[w].pc = "raised"
    /\ run' = [run EXCEPT !.pc = "raised"]
    /\ UNCHANGED << concurrency, supply, job, queue, mirror, unfinished, worker, cpu, checkpoint,
                    seen, results, results_index, metrics, source_stats, quarantine,
                    reenq, considered >>

\* 331-357: every worker returned: persist each type, write the manifest
Commit ==
    /\ run.pc = "running"
    /\ \A w \in Workers : worker[w].pc = "done"
    /\ run' = [pc |-> "done",
               committed |-> results,
               manifests |-> << [counts |-> [t \in Types |-> Len(results[t])],
                                source_stats |-> source_stats,
                                metrics |-> metrics,
                                exit_code |-> 0] >>]
    /\ UNCHANGED << concurrency, supply, job, queue, mirror, unfinished, worker, cpu, checkpoint,
                    seen, results, results_index, metrics, source_stats, quarantine,
                    reenq, considered >>

Next ==
    \/ \E w \in Workers : Dequeue(w) /\ UNCHANGED outsideCrawl
    \/ \E w \in Workers : TimeoutContinue(w)
    \/ \E w \in Workers : BreakUnbound(w) /\ UNCHANGED outsideCrawl
    \/ \E w \in Workers : BreakRuleFails(w) /\ UNCHANGED outsideCrawl
    \/ \E w \in Workers : BreakStart(w) /\ UNCHANGED outsideCrawl
    \/ \E w \in Workers : \E o \in FetchOutcomes : \E x \in ExtraLists :
           FetchInitial(w, o, x) /\ UNCHANGED outsideCrawl
    \/ \E w \in Workers : \E o \in FetchOutcomes : FetchExtra(w, o) /\ UNCHANGED outsideCrawl
    \/ \E w \in Workers : SkipPage(w) /\ UNCHANGED outsideCrawl
    \/ \E w \in Workers : \E n \in 0..MaxCands : Extract(w, n) /\ UNCHANGED outsideCrawl
    \/ \E w \in Workers : ExtractRaises(w) /\ UNCHANGED outsideCrawl
    \/ \E w \in Workers : \E shape \in CandShapes : Entity(w, shape) /\ UNCHANGED outsideCrawl
    \/ \E w \in Workers : Finish(w) /\ UNCHANGED outsideCrawl
    \/ GatherRaises /\ UNCHANGED outsideCrawl
    \/ Commit /\ UNCHANGED outsideCrawl

Spec == Init /\ [][Next]_vars

TypeOK ==
    /\ concurrency \in 1..MaxPool
    /\ supply \in 0..MaxCandsRun
    /\ \A id \in JobIds : job[id].status \in {"pending", "in_progress", "succeeded", "retry", "failed"}
    /\ cpu \in {Null} \cup Workers
    /\ run.pc \in {"running", "done", "raised"}

\* what a specification other than Spec finds in the variables of the run
CrawlAtRest ==
    /\ concurrency = 1
    /\ job = << >>
    /\ queue = << >>
    /\ mirror = << >>
    /\ unfinished = 0
    /\ worker = << >>
    /\ cpu = Null
    /\ supply = 0
    /\ checkpoint = NoCheckpoint
    /\ seen = {}
    /\ results = << >>
    /\ results_index = << >>
    /\ metrics = << >>
    /\ source_stats = << >>
    /\ quarantine = << >>
    /\ run = << >>
    /\ reenq = << >>
    /\ considered = 0

\* ============================================ fetch_document (app/fetch)
\* SpecFetch: one caller makes up to MaxCalls calls of fetch_document, one
\* after the other, for URLs of two hosts and a file:// URL.  The robots.txt
\* of a host, the answers of the session and the level of the loggers are
\* inputs.
MaxCalls == 2
MaxPath == 2
MaxTag == 1

\* fetcher.py 37, 53: range(1, 5)
FetchAttempts == 4

Paths == 1..MaxPath

FetchUrls ==
    { [scheme |-> "file", netloc |-> "", path |-> 1] }
    \cup { [scheme |-> "https", netloc |-> h, path |-> p] : h \in {"a", "b"}, p \in Paths }

\* logging: Logger.info and Logger.warning hand their keyword arguments to
\* Logger._log when the level is enabled, and _log accepts none of url,
\* span, attempt, ...: the call raises TypeError.  A disabled level returns
\* before that.
LogLevels == {"INFO", "WARNING", "ERROR"}

LevelNo(level) == CASE level = "INFO" -> 20 [] level = "WARNING" -> 30 [] OTHER -> 40

LogRaises(level) == LevelNo(level) >= LevelNo(log_level)

\* robots.py 29-39: what the fetch of robots.txt can bring
RobotsOutcomes ==
    { [kind |-> k, disallow |-> {}] : k \in {"status_ge_400", "transport_error"} }
    \cup { [kind |-> "policy", disallow |-> d] : d \in SUBSET Paths }

\* a policy that forbids every path when robots.txt could not be fetched
RobotsPolicyClosed(outcome) ==
    IF outcome.kind = "policy" THEN outcome.disallow ELSE Paths

\* robots.py 34-39: parser.parse([]) on >= 400 and on httpx.HTTPError, else
\* the rules of the file, kept as the paths they forbid to the user agent
RobotsPolicy(outcome) ==
    IF outcome.kind = "policy" THEN outcome.disallow ELSE {}

\* RobotFileParser.can_fetch
can_fetch(policy, url) == url.path \notin policy

\* etag_cache.py 30-37
headers_for(index, url) ==
    LET entry == IF url \in DOMAIN index THEN index[url]
                 ELSE [etag |-> Null, last_modified |-> Null]
    IN [if_none_match |-> entry.etag, if_modified_since |-> entry.last_modified]

update_merging(index, url, etag, last_modified) ==
    LET old == headers_for(index, url)
    IN (url :> [etag |-> Or(etag, old.if_none_match),
                last_modified |-> Or(last_modified, old.if_modified_since)]) @@ index

\* etag_cache.py 39-45: the entry of the URL is replaced ("" for a missing header)
update(index, url, etag, last_modified) ==
    (url :> [etag |-> etag, last_modified |-> last_modified]) @@ index

FetchMetricNames ==
    {"pages_fetched", "http_2xx", "http_3xx", "http_4xx", "http_5xx", "retries",
     "unchanged_skips", "robots_disallow"}

\* fetcher.py 84-86
HttpCounter(status) ==
    CASE status \div 100 = 2 -> "http_2xx"
      [] status \div 100 = 3 -> "http_3xx"
      [] status \div 100 = 4 -> "http_4xx"
      [] OTHER -> "http_5xx"

Tags == {Null} \cup 1..MaxTag

\* what session.fetch can bring: a response, httpx.HTTPError, another exception
Responses ==
    { [kind |-> "response", status |-> st, etag |-> e, last_modified |-> m] :
          st \in {200, 304, 404, 500}, e \in Tags, m \in Tags }

RequestOutcomes ==
    Responses \cup { [kind |-> k, status |-> 0, etag |-> Null, last_modified |-> Null] :
                         k \in {"transport_error", "other_error"} }

NoResponse == [kind |-> "none", status |-> 0, etag |-> Null, last_modified |-> Null]

\* outcomes: what each request of the call ended in; response: the response
\* the call received, if any
NoCall ==
    [pc |-> "none", url |-> Null, allowed |-> FALSE, headers |-> Null, attempt |-> 0,
     outcomes |-> << >>, response |-> NoResponse, result |-> "none"]

InitFetch ==
    /\ log_level \in LogLevels
    /\ robots_cache = << >>
    /\ conditional_index = << >>
    /\ fetch_metrics = [n \in FetchMetricNames |-> 0]
    /\ snapshots = 0
    /\ call = NoCall
    /\ net = [calls |-> 0, requests |-> 0, robots_fetches |-> 0, failed |-> {}]
    /\ CrawlAtRest
    /\ StoreAtRest
    /\ ProbeAtRest
    /\ RunsAtRest
    /\ UnitAtRest
    /\ SharedAtRest

\* attempt 5 as the last attempt
LastAttemptFive(attempt) == attempt = FetchAttempts + 1

\* fetcher.py 53
LastAttempt(attempt) == attempt = FetchAttempts

\* fetcher.py 70-75 with robots.py 21-42: a call of fetch_document up to its
\* first request.  robots.txt is fetched when the scheme is not file and the
\* netloc is not cached; its outcome is r.
FetchDocument(url, r) ==
    /\ call.pc # "request"
    /\ net.calls < MaxCalls
    /\ LET file == url.scheme = "file"
           fetched == ~file /\ url.netloc \notin DOMAIN robots_cache
           cache == IF fetched THEN (url.netloc :> RobotsPolicy(r)) @@ robots_cache
                    ELSE robots_cache
           allowed == file \/ can_fetch(cache[url.netloc], url)
           started == [NoCall EXCEPT !.url = url, !.allowed = allowed]
       IN /\ ~fetched => r = [kind |-> "policy", disallow |-> {}]
          /\ robots_cache' = cache
          /\ net' = [net EXCEPT !.calls = @ + 1,
                                !.robots_fetches = IF fetched THEN @ + 1 ELSE @,
                                !.failed = IF fetched /\ r.kind # "policy"
                                           THEN @ \cup {url.netloc} ELSE @]
          /\ IF allowed
             THEN /\ call' = [started EXCEPT !.pc = "request", !.attempt = 1,
                                  !.headers = headers_for(conditional_index, url)]
                  /\ UNCHANGED fetch_metrics
             ELSE IF LogRaises("INFO")
             THEN /\ call' = [started EXCEPT !.pc = "raised", !.result = "TypeError"]
                  /\ UNCHANGED fetch_metrics
             ELSE /\ call' = [started EXCEPT !.pc = "returned", !.result = "null"]
                  /\ fetch_metrics' = incr(fetch_metrics, "robots_disallow")
    /\ UNCHANGED << log_level, conditional_index, snapshots >>
    /\ UNCHANGED << crawlVars, storeVars, probe, runsVars, unitVars, sharedVars >>

\* fetcher.py 37-56 and 84-113: one request of the call returns with o.  The
\* exit of the span logs at INFO, log_retry logs at WARNING.
Request(o) ==
    /\ call.pc = "request"
    /\ LET sent == [call EXCEPT !.outcomes = Append(@, o.kind),
                                !.response = IF o.kind = "response" THEN o ELSE @]
           ends(pc, result) == [sent EXCEPT !.pc = pc, !.result = result]
           counted == incr(incr(fetch_metrics, "pages_fetched"), HttpCounter(o.status))
       IN /\ net' = [net EXCEPT !.requests = @ + 1]
          /\ IF LogRaises("INFO")
             THEN /\ call' = ends("raised", "TypeError")
                  /\ UNCHANGED << fetch_metrics, conditional_index, snapshots >>
             ELSE CASE o.kind = "other_error" ->
                         /\ call' = ends("raised", "OtherError")
                         /\ UNCHANGED << fetch_metrics, conditional_index, snapshots >>
                    [] o.kind = "transport_error" ->
                         /\ fetch_metrics' = incr(fetch_metrics, "retries")
                         /\ call' = IF LogRaises("WARNING") THEN ends("raised", "TypeError")
                                    ELSE IF LastAttempt(call.attempt)
                                    THEN ends("raised", "HTTPError")
                                    ELSE [sent EXCEPT !.attempt = @ + 1]
                         /\ UNCHANGED << conditional_index, snapshots >>
                    [] o.status = 304 ->
                         /\ fetch_metrics' = incr(counted, "unchanged_skips")
                         /\ conditional_index' =
                                update(conditional_index, call.url, o.etag, o.last_modified)
                         /\ call' = ends("returned", "null")
                         /\ UNCHANGED snapshots
                    [] o.status >= 400 ->
                         /\ fetch_metrics' = counted
                         /\ call' = ends("raised", "HTTPStatusError")
                         /\ UNCHANGED << conditional_index, snapshots >>
                    [] OTHER ->
                         /\ fetch_metrics' = counted
                         /\ snapshots' = snapshots + 1
                         /\ conditional_index' =
                                update(conditional_index, call.url, o.etag, o.last_modified)
                         /\ call' = ends("returned", "snapshot")
    /\ UNCHANGED << log_level, robots_cache >>
    /\ UNCHANGED << crawlVars, storeVars, probe, runsVars, unitVars, sharedVars >>

NextFetch ==
    \/ \E url \in FetchUrls : \E r \in RobotsOutcomes : FetchDocument(url, r)
    \/ \E o \in RequestOutcomes : Request(o)

SpecFetch == InitFetch /\ [][NextFetch]_vars

\* ================================== write_sqlite (app/storage/partition.py)
\* SpecStore: up to MaxWrites end-of-run commits into events.db, each a batch
\* of up to MaxBatch accepted entities of one type.
MaxWrites == 2
MaxBatch == 2

\* partition.py 43-64
Columns ==
    {"source_id", "title", "start", "end", "timezone", "venue_name", "address", "city",
     "country", "time_slots_json", "price_text", "price_value", "organizer", "url",
     "emails_json", "phones_json", "images_json", "taxonomy_json", "sport_type", "dedup_key"}

NotNullColumns ==
    {"source_id", "title", "venue_name", "address", "city", "time_slots_json"}

\* partition.py 79-91: the SET list of ON CONFLICT(dedup_key) DO UPDATE
UpdatedColumns ==
    {"start", "end", "timezone", "price_text", "price_value", "organizer", "url",
     "emails_json", "phones_json", "images_json", "taxonomy_json", "sport_type"}

\* orjson.dumps(...).decode(): the JSON text of a list
dumps(v) == 1000 + v

\* partition.py 95-116: the prepared row of an entity
Row(entity) ==
    [c \in Columns |->
        CASE c = "time_slots_json" -> dumps(IF "time_slots" \in DOMAIN entity
                                            THEN entity["time_slots"] ELSE EmptyList)
          [] c = "emails_json" -> dumps(IF "emails" \in DOMAIN entity
                                        THEN entity["emails"] ELSE EmptyList)
          [] c = "phones_json" -> dumps(IF "phones" \in DOMAIN entity
                                        THEN entity["phones"] ELSE EmptyList)
          [] c = "images_json" -> dumps(IF "images" \in DOMAIN entity
                                        THEN entity["images"] ELSE EmptyList)
          [] c = "taxonomy_json" -> dumps(IF "taxonomy" \in DOMAIN entity
                                          THEN entity["taxonomy"] ELSE EmptyList)
          [] c = "dedup_key" -> entity_key(entity)
          [] OTHER -> Get(entity, c)]

\* the row with this dedup_key, if the table has one
Conflicts(table, row) == { i \in 1..Len(table) : table[i]["dedup_key"] = row["dedup_key"] }

\* a plain INSERT: the row is always added
InsertRow(table, row) == Append(table, row)

\* partition.py 67-92: INSERT ... ON CONFLICT(dedup_key) DO UPDATE SET ...
Upsert(table, row) ==
    IF Conflicts(table, row) = {} THEN Append(table, row)
    ELSE LET i == CHOOSE i \in Conflicts(table, row) : TRUE
         IN [table EXCEPT ![i] =
                [c \in Columns |-> IF c \in UpdatedColumns THEN row[c] ELSE @[c]]]

RECURSIVE executemany(_, _)
executemany(table, rows) ==
    IF rows = << >> THEN table ELSE executemany(Upsert(table, Head(rows)), Tail(rows))

\* a NOT NULL column of some row is None: sqlite3.IntegrityError
IntegrityError(rows) ==
    \E i \in 1..Len(rows) : \E c \in NotNullColumns : rows[i][c] = Null

\* partition.py 34-120: the table after write_sqlite; an IntegrityError leaves
\* the transaction uncommitted
write_sqlite(table, entities) ==
    LET rows == [i \in 1..Len(entities) |-> Row(entities[i])]
    IN IF IntegrityError(rows) THEN table ELSE executemany(table, rows)

\* the accepted entities a run can hand over: an event on two days, at two
\* hours of the first day, in two renderings v of its other attributes, and
\* one without address and city
StoreEntities(t) ==
    { [k \in {"source_id", "title", "start", "venue_name", "address", "city", "country",
              "time_slots", "timezone", "price_text", "price_value", "organizer", "url",
              "emails", "phones", "images", "taxonomy"} |->
          CASE k \in {"source_id", "title", "venue_name", "city"} -> 1
            [] k = "start" -> st
            [] OTHER -> v]
          @@ (IF t = "sports" THEN ("sport_type" :> v) ELSE << >>) :
        st \in {10, 12, 20}, v \in 1..2 }
    \cup { [source_id |-> 1, title |-> 1, start |-> 10, venue_name |-> 1] }

Batches(t) == SeqsUpTo(StoreEntities(t), MaxBatch) \ { << >> }

InitStore ==
    /\ tables = [t \in Types |-> << >>]
    /\ last_write = [n |-> 0, entity_type |-> "events", entities |-> << >>, before |-> << >>]
    /\ CrawlAtRest
    /\ FetchAtRest
    /\ ProbeAtRest
    /\ RunsAtRest
    /\ UnitAtRest
    /\ SharedAtRest

\* partition.py 151 as called by run_crawl (main.py 333-339) for one type
WriteSqlite(t, entities) ==
    /\ last_write.n < MaxWrites
    /\ tables' = [tables EXCEPT ![t] = write_sqlite(@, entities)]
    /\ last_write' = [n |-> last_write.n + 1, entity_type |-> t, entities |-> entities,
                      before |-> tables[t]]
    /\ UNCHANGED << crawlVars, fetchVars, probe, runsVars, unitVars, sharedVars >>

NextStore == \E t \in Types : \E entities \in Batches(t) : WriteSqlite(t, entities)

SpecStore == InitStore /\ [][NextStore]_vars

\* ================================= Deduplicator (app/quality/dedup.py)
\* SpecDedup: a fresh Deduplicator remembers one of two entities and is asked
\* about the other.  The entities have the same venue, city and source and
\* differ in title, day and hour of start.
ProbeEntities ==
    { [source_id |-> 1, title |-> ti, start |-> 10 * d + h, venue_name |-> 1, city |-> 1] :
          ti \in 1..2, d \in 1..MaxDay, h \in {0, 8} }

InitDedup ==
    /\ \E a \in ProbeEntities : \E b \in ProbeEntities :
           probe = [a |-> a, b |-> b, _seen |-> {}, pc |-> "new", first |-> "none",
                    answer |-> FALSE]
    /\ CrawlAtRest
    /\ FetchAtRest
    /\ StoreAtRest
    /\ RunsAtRest
    /\ UnitAtRest
    /\ SharedAtRest

\* dedup.py 29-32: remember(a) or remember(b)
Remember(which) ==
    /\ probe.pc = "new"
    /\ probe' = [probe EXCEPT !.pc = "remembered", !.first = which,
                     !._seen = remember(@, IF which = "a" THEN probe.a ELSE probe.b)]
    /\ UNCHANGED << crawlVars, fetchVars, storeVars, runsVars, unitVars, sharedVars >>

\* dedup.py 19-27: is_duplicate of the other entity
IsDuplicate ==
    /\ probe.pc = "remembered"
    /\ probe' = [probe EXCEPT !.pc = "asked",
                     !.answer = is_duplicate(probe._seen,
                                             IF probe.first = "a" THEN probe.b ELSE probe.a)]
    /\ UNCHANGED << crawlVars, fetchVars, storeVars, runsVars, unitVars, sharedVars >>

NextDedup ==
    \/ \E which \in {"a", "b"} : Remember(which)
    \/ IsDuplicate

SpecDedup == InitDedup /\ [][NextDedup]_vars

\* ===================================================================
\* run_schedule_loop (app/orchestrator/schedule_loop.py 51-85) around
\* run_crawl: the worker steps are the actions of Spec; what is added is what
\* outlives a run: the checkpoints directory, the conditional cache file
\* (bronze/conditional.json), the manifests, and the server of the source.
\* The loggers are quiet (log_level stays above INFO and WARNING) and
\* robots.txt allows every URL.
MaxTicks == 2
MaxScheduled == 2
MaxRuns == 2
MaxRunCands == 2
MaxVersion == 2

\* the base_url of the one configured source; a re-planned job has it again
BaseUrl == 1

IdleRun == [pc |-> "none", committed |-> [t \in Types |-> << >>], manifests |-> << >>]

\* schedule_loop.py 44-48: the first leftover checkpoint of the source type
\* names the run, otherwise the clock does
_resolve_run_id(source_type, files, now) ==
    LET existing == { r \in DOMAIN files : r[1] = source_type }
    IN IF existing # {}
       THEN CHOOSE r \in existing : \A q \in existing : r[2] <= q[2]
       ELSE << source_type, now >>

\* checkpoints.py: the file <run_id>.json as the run leaves it
SyncCheckpoints(files) ==
    IF checkpoint = NoCheckpoint
    THEN [r \in DOMAIN files \ {run_id} |-> files[r]]
    ELSE (run_id :> checkpoint) @@ files

\* schedule_loop.py 64-85: the next job of the tick, the next tick, or return
Advance(s) ==
    IF s.slot < s.jobs THEN [s EXCEPT !.slot = @ + 1, !.pc = "loop"]
    ELSE IF s.tick + 1 < s.ticks THEN [s EXCEPT !.tick = @ + 1, !.slot = 1, !.pc = "loop"]
    ELSE [s EXCEPT !.tick = @ + 1, !.pc = "returned"]

\* the server: 304 to a conditional request that carries the current ETag
ServerStatus(url, headers) ==
    IF site.etags /\ headers.if_none_match # Null /\ headers.if_none_match = site.version
    THEN 304 ELSE 200

OutcomeOf(status) ==
    CASE status = 200 -> "snapshot"
      [] status = 304 -> "none"
      [] OTHER -> "raises"

InitRuns ==
    /\ concurrency \in 1..MaxConcurrency
    /\ \E n \in 1..MaxTicks : \E k \in 1..MaxScheduled :
           /\ n * k <= MaxRuns
           /\ sched = [ticks |-> n, jobs |-> k, tick |-> 0, slot |-> 1, pc |-> "loop", clock |-> 1]
    /\ \E x \in ExtraLists : \E tagged \in BOOLEAN :
           site = [extra |-> x, etags |-> tagged, version |-> 1]
    /\ run_id = << >>
    /\ checkpoint_files = << >>
    /\ manifest_files = {}
    /\ prev = [done |-> FALSE, accepted |-> 0]
    /\ served = [requests |-> 0, not_modified |-> 0]
    /\ conditional_index = << >>
    /\ fetch_metrics = [n \in FetchMetricNames |-> 0]
    /\ snapshots = 0
    /\ log_level = "ERROR"
    /\ robots_cache = << >>
    /\ call = << >>
    /\ net = << >>
    /\ supply = 0
    /\ job = << >>
    /\ queue = << >>
    /\ mirror = << >>
    /\ unfinished = 0
    /\ worker = [w \in 1..concurrency |-> IdleWorker]
    /\ cpu = Null
    /\ checkpoint = NoCheckpoint
    /\ seen = {}
    /\ results = [t \in Types |-> << >>]
    /\ results_index = [t \in Types |-> << >>]
    /\ metrics = [n \in MetricNames |-> 0]
    /\ source_stats = << >>
    /\ quarantine = << >>
    /\ run = IdleRun
    /\ reenq = << >>
    /\ considered = 0
    /\ StoreAtRest
    /\ ProbeAtRest
    /\ UnitAtRest
    /\ SharedAtRest

\* schedule_loop.py 66-82 and main.py 222-291: the loop resolves the run_id
\* and calls run_crawl, which plans the job of the source anew (a new uuid4
\* job_id), builds new metrics, a new Deduplicator and new result lists, and
\* loads the conditional cache file.  Before the run the source may change.
StartRun(changes) ==
    /\ sched.pc = "loop"
    /\ changes => site.version < MaxVersion
    /\ LET rid == _resolve_run_id("events", checkpoint_files, sched.clock)
           jid == sched.clock
       IN /\ run_id' = rid
          /\ job' = (jid :> [NewJob(jid, [source_id |-> 1, entity_type |-> "events"])
                                 EXCEPT !.url = BaseUrl])
          /\ queue' = << jid >>
          /\ mirror' = << jid >>
          /\ reenq' = (jid :> 0)
          /\ checkpoint' = IF rid \in DOMAIN checkpoint_files
                           THEN checkpoint_files[rid] ELSE NoCheckpoint
    /\ sched' = [sched EXCEPT !.pc = "running", !.clock = @ + 1]
    /\ site' = [site EXCEPT !.version = IF changes THEN @ + 1 ELSE @]
    /\ prev' = [done |-> run.pc = "done",
                accepted |-> Len(results["events"]) + Len(results["sports"])]
    /\ served' = [requests |-> 0, not_modified |-> 0]
    /\ fetch_metrics' = [n \in FetchMetricNames |-> 0]
    /\ supply' = MaxRunCands
    /\ unfinished' = 1
    /\ worker' = [w \in Workers |-> IdleWorker]
    /\ cpu' = Null
    /\ seen' = {}
    /\ results' = [t \in Types |-> << >>]
    /\ results_index' = [t \in Types |-> << >>]
    /\ metrics' = [n \in MetricNames |-> 0]
    /\ source_stats' = << >>
    /\ quarantine' = << >>
    /\ run' = [IdleRun EXCEPT !.pc = "running"]
    /\ considered' = 0
    /\ UNCHANGED << concurrency, checkpoint_files, manifest_files, conditional_index,
                    snapshots, log_level, robots_cache, call, net, storeVars, probe, unitVars, sharedVars >>

\* fetcher.py 75-112 for the request of a run: the cached validators go out,
\* the status is counted, a 200 or a 304 replaces the cache entry, a 200
\* leaves a snapshot
Served(url, status) ==
    /\ fetch_metrics' =
           LET counted == incr(incr(fetch_metrics, "pages_fetched"), HttpCounter(status))
           IN IF status = 304 THEN incr(counted, "unchanged_skips") ELSE counted
    /\ conditional_index' =
           IF status \in {200, 304}
           THEN update(conditional_index, url,
                       IF site.etags THEN site.version ELSE Null, Null)
           ELSE conditional_index
    /\ snapshots' = IF status = 200 THEN snapshots + 1 ELSE snapshots
    /\ served' = [requests |-> served.requests + 1,
                  not_modified |-> served.not_modified + (IF status = 304 THEN 1 ELSE 0)]
    /\ UNCHANGED << log_level, robots_cache, call, net, storeVars, probe, unitVars, sharedVars,
                    sched, run_id, checkpoint_files, manifest_files, site, prev >>

\* main.py 120-130 with the server behind session.fetch
RunFetchInitial(w, status) ==
    /\ FetchInitial(w, OutcomeOf(status), IF status = 200 THEN site.extra ELSE << >>)
    /\ LET url == job[worker[w].job].url
       IN /\ status \in {500, ServerStatus(url, headers_for(conditional_index, url))}
          /\ Served(url, status)

\* main.py 142-153 with the server behind session.fetch
RunFetchExtra(w, status) ==
    /\ FetchExtra(w, OutcomeOf(status))
    /\ LET url == Head(worker[w].pending)
       IN /\ status \in {500, ServerStatus(url, headers_for(conditional_index, url))}
          /\ Served(url, status)

\* main.py 331: a worker task raised; schedule_loop.py 82 has no handler, so
\* the exception leaves run_schedule_loop
RunRaises ==
    /\ GatherRaises
    /\ sched' = [sched EXCEPT !.pc = "raised"]
    /\ checkpoint_files' = SyncCheckpoints(checkpoint_files)
    /\ UNCHANGED << fetchVars, storeVars, probe, unitVars, sharedVars, run_id, manifest_files, site, prev, served >>

\* main.py 333-357 and schedule_loop.py 83-85: the manifest run-<run_id>.json
\* is written (over an older one of the same name) and the loop goes on
RunCommits ==
    /\ Commit
    /\ manifest_files' = manifest_files \cup {run_id}
    /\ checkpoint_files' = SyncCheckpoints(checkpoint_files)
    /\ sched' = Advance(sched)
    /\ UNCHANGED << fetchVars, storeVars, probe, unitVars, sharedVars, run_id, site, prev, served >>

NextRuns ==
    \/ \E changes \in BOOLEAN : StartRun(changes)
    \/ \E w \in Workers : Dequeue(w) /\ UNCHANGED outsideCrawl
    \/ \E w \in Workers : TimeoutContinue(w)
    \/ \E w \in Workers : BreakUnbound(w) /\ UNCHANGED outsideCrawl
    \/ \E w \in Workers : BreakRuleFails(w) /\ UNCHANGED outsideCrawl
    \/ \E w \in Workers : BreakStart(w) /\ UNCHANGED outsideCrawl
    \/ \E w \in Workers : \E status \in {200, 304, 500} : RunFetchInitial(w, status)
    \/ \E w \in Workers : \E status \in {200, 304, 500} : RunFetchExtra(w, status)
    \/ \E w \in Workers : SkipPage(w) /\ UNCHANGED outsideCrawl
    \/ \E w \in Workers : \E n \in 0..MaxCands : Extract(w, n) /\ UNCHANGED outsideCrawl
    \/ \E w \in Workers : ExtractRaises(w) /\ UNCHANGED outsideCrawl
    \/ \E w \in Workers : \E shape \in CandShapes : Entity(w, shape) /\ UNCHANGED outsideCrawl
    \/ \E w \in Workers : Finish(w) /\ UNCHANGED outsideCrawl
    \/ RunRaises
    \/ RunCommits

SpecRuns == InitRuns /\ [][NextRuns]_vars

\* ===================================================================
\* ETagCache on its own (app/fetch/etag_cache.py): any sequence of update
\* calls, over a few URLs, with and without each validator.
MaxCacheUrls == 3
MaxUpdates == 2

CacheUrls == 1..MaxCacheUrls

NoUpdate == [etag |-> Null, last_modified |-> Null, n |-> 0]

InitCache ==
    /\ conditional_index = << >>
    /\ latest_update = [u \in CacheUrls |-> NoUpdate]
    /\ ckpt_texts = << >>
    /\ ckpt_call = << >>
    /\ planner = << >>
    /\ loader = << >>
    /\ pipeline_log = << >>
    /\ SharedAtRest
    /\ log_level = "ERROR"
    /\ robots_cache = << >>
    /\ fetch_metrics = << >>
    /\ snapshots = 0
    /\ call = << >>
    /\ net = << >>
    /\ CrawlAtRest
    /\ StoreAtRest
    /\ ProbeAtRest
    /\ RunsAtRest

\* etag_cache.py 39-45: one update call
Update(url, etag, last_modified) ==
    /\ latest_update[url].n < MaxUpdates
    /\ conditional_index' = update(conditional_index, url, etag, last_modified)
    /\ latest_update' = [latest_update EXCEPT ![url] =
           [etag |-> etag, last_modified |-> last_modified, n |-> @.n + 1]]
    /\ UNCHANGED << log_level, robots_cache, fetch_metrics, snapshots, call, net,
                    crawlVars, storeVars, probe, runsVars, ckpt_texts, ckpt_call, planner,
                    loader, pipeline_log, sharedVars >>

NextCache ==
    \E url \in CacheUrls : \E etag \in Tags : \E last_modified \in Tags :
        Update(url, etag, last_modified)

SpecCache == InitCache /\ [][NextCache]_vars

\* ===================================================================
\* The checkpoint files on their own (app/orchestrator/checkpoint.py), with
\* the JSON module the repository ships (src/orjson.py) or the orjson
\* package in its place.  A file may also hold what no save_checkpoint wrote:
\* a write cut short, or the content of another program.
MaxRunIds == 2
MaxCkptCalls == 3
MaxCkptPage == 1

RunIds == 1..MaxRunIds

CheckpointFields == {"job_id", "url_cursor", "page_idx", "discovered_urls_hash"}

\* the JobCheckpoint objects the calls are made with
Checkpoints ==
    { JobCheckpoint(j, 1, p, << 1 >>) : j \in 1..2, p \in 0..MaxCkptPage }

\* dataclasses.asdict: the fields by name
asdict(c) == [f \in CheckpointFields |-> c[f]]

\* orjson.dumps(...).decode(): the JSON text of a value
JsonText(value) == [kind |-> "object", value |-> value]

\* texts that are not the JSON text of a checkpoint: no JSON at all, a JSON
\* array, an object that lacks a field, an object with a field too many
CorruptTexts ==
    { [kind |-> "garbage", value |-> << >>],
      [kind |-> "array", value |-> << >>],
      JsonText([f \in CheckpointFields \ {"page_idx"} |-> 1]),
      JsonText([f \in CheckpointFields \cup {"saved_at"} |-> 1]) }

JsonLibs == {"shim", "orjson"}

Returned(value) == [raised |-> FALSE, value |-> value]
Raised == [raised |-> TRUE, value |-> NoCheckpoint]

\* checkpoint.py 26-34.  json.loads raises json.JSONDecodeError on a text
\* that is not JSON; the handler names orjson.JSONDecodeError, which the
\* shipped module does not define, so evaluating the except clause raises
\* AttributeError; the orjson package defines it.  JobCheckpoint(**payload)
\* raises TypeError unless payload is a mapping with exactly the four fields.
load_checkpoint(lib, files, r) ==
    IF r \notin DOMAIN files THEN Returned(NoCheckpoint)
    ELSE LET text == files[r]
         IN CASE text.kind = "garbage" ->
                     IF lib = "orjson" THEN Returned(NoCheckpoint) ELSE Raised
              [] text.kind = "array" -> Raised
              [] OTHER ->
                     LET payload == text.value
                     IN IF DOMAIN payload = CheckpointFields
                        THEN Returned([f \in CheckpointFields |-> payload[f]])
                        ELSE Raised

\* checkpoint.py 37-40
save_checkpoint(files, r, c) == (r :> JsonText(asdict(c))) @@ files

clear_checkpoint_all(files, r) == << >>

\* checkpoint.py 43-46
clear_checkpoint(files, r) == [q \in DOMAIN files \ {r} |-> files[q]]

NoCkptCall ==
    [lib |-> "shim", n |-> 0, op |-> "none", run_id |-> Null, arg |-> NoCheckpoint,
     result |-> Returned(NoCheckpoint)]

InitCheckpoint ==
    /\ ckpt_texts = << >>
    /\ \E lib \in JsonLibs : ckpt_call = [NoCkptCall EXCEPT !.lib = lib]
    /\ latest_update = << >>
    /\ planner = << >>
    /\ loader = << >>
    /\ pipeline_log = << >>
    /\ SharedAtRest
    /\ CrawlAtRest
    /\ FetchAtRest
    /\ StoreAtRest
    /\ ProbeAtRest
    /\ RunsAtRest

CkptCall(op, r, c, result) ==
    /\ ckpt_call.n < MaxCkptCalls
    /\ ckpt_call' = [ckpt_call EXCEPT !.n = @ + 1, !.op = op, !.run_id = r, !.arg = c,
                                       !.result = result]
    /\ UNCHANGED << crawlVars, fetchVars, storeVars, probe, runsVars, latest_update, planner,
                    loader, pipeline_log, sharedVars >>

SaveCheckpoint(r, c) ==
    /\ CkptCall("save", r, c, Returned(NoCheckpoint))
    /\ ckpt_texts' = save_checkpoint(ckpt_texts, r, c)

LoadCheckpoint(r) ==
    /\ CkptCall("load", r, NoCheckpoint, load_checkpoint(ckpt_call.lib, ckpt_texts, r))
    /\ UNCHANGED ckpt_texts

ClearCheckpoint(r) ==
    /\ CkptCall("clear", r, NoCheckpoint, Returned(NoCheckpoint))
    /\ ckpt_texts' = clear_checkpoint(ckpt_texts, r)

\* the file of a run_id gets a content that is not a checkpoint
Damage(r, text) ==
    /\ CkptCall("damage", r, NoCheckpoint, Returned(NoCheckpoint))
    /\ ckpt_texts' = (r :> text) @@ ckpt_texts

NextCheckpoint ==
    \/ \E r \in RunIds : \E c \in Checkpoints : SaveCheckpoint(r, c)
    \/ \E r \in RunIds : LoadCheckpoint(r)
    \/ \E r \in RunIds : ClearCheckpoint(r)
    \/ \E r \in RunIds : \E text \in CorruptTexts : Damage(r, text)

SpecCheckpoint == InitCheckpoint /\ [][NextCheckpoint]_vars

\* ===================================================================
\* plan_jobs on its own (app/orchestrator/scheduler.py 11-36)
MaxSources == 3
MaxLimit == 3

\* the rows of the registry that plan_jobs looks at; the base_url of the
\* i-th source is 10 + i
SourceLists ==
    UNION { [1..n -> Types] : n \in 0..MaxSources }

SourceOf(types, i) == [source_id |-> i, type |-> types[i], base_url |-> 10 + i]

\* scheduler.py 19-35: the loop over the sources.  uuid4 gives each job an
\* id no other job has: here the number of the job in the plan.
RECURSIVE PlanLoop(_, _, _, _, _)
PlanLoop(types, i, entity_type, limit, jobs) ==
    IF i > Len(types) THEN jobs
    ELSE LET source == SourceOf(types, i)
         IN IF entity_type # "all" /\ source.type # entity_type
            THEN PlanLoop(types, i + 1, entity_type, limit, jobs)
            ELSE LET planned ==
                         Append(jobs,
                                [NewJob(Len(jobs) + 1,
                                        [source_id |-> source.source_id,
                                         entity_type |-> source.type])
                                     EXCEPT !.url = source.base_url])
                 IN IF Len(planned) >= limit THEN planned
                    ELSE PlanLoop(types, i + 1, entity_type, limit, planned)

plan_jobs(types, entity_type, limit) == PlanLoop(types, 1, entity_type, limit, << >>)

InitPlan ==
    /\ \E types \in SourceLists : \E entity_type \in Types \cup {"all"} :
       \E limit \in 0..MaxLimit :
           planner = [pc |-> "call", sources |-> types, entity_type |-> entity_type,
                      limit |-> limit, jobs |-> << >>]
    /\ latest_update = << >>
    /\ ckpt_texts = << >>
    /\ ckpt_call = << >>
    /\ loader = << >>
    /\ pipeline_log = << >>
    /\ SharedAtRest
    /\ CrawlAtRest
    /\ FetchAtRest
    /\ StoreAtRest
    /\ ProbeAtRest
    /\ RunsAtRest

PlanJobs ==
    /\ planner.pc = "call"
    /\ planner' = [planner EXCEPT !.pc = "planned",
                       !.jobs = plan_jobs(planner.sources, planner.entity_type, planner.limit)]
    /\ UNCHANGED << crawlVars, fetchVars, storeVars, probe, runsVars,
                    latest_update, ckpt_texts, ckpt_call, loader, pipeline_log, sharedVars >>

NextPlan == PlanJobs

SpecPlan == InitPlan /\ [][NextPlan]_vars

\* ===================================================================
\* The source registry (app/orchestrator/source_loader.py).  A row of the
\* CSV file is taken by what the loader makes of it: whether it has a
\* source_id, whether its enabled column reads as true, whether its rule
\* file exists, and its other columns: "valid", "bad_field" (a value the
\* SourceConfig model rejects, such as an unknown type) or "bad_number"
\* (max_qps or concurrency is no number).
MaxRows == 2

RowFields == {"valid", "bad_field", "bad_number"}

RegistryRows ==
    [has_id : BOOLEAN, enabled : BOOLEAN, fields : RowFields, rule_file : BOOLEAN]

Registries == UNION { [1..n -> RegistryRows] : n \in 0..MaxRows }

\* source_loader.py 58-70: float() and int() raise ValueError on a text
\* that is no number
PrepareRaises(row) == row.fields = "bad_number"

\* source_loader.py 84-86 (107-109): the model validates every field when it
\* is built, enabled or not; the rule file is looked for only when enabled
ConfigError(row) ==
    CASE row.fields = "bad_field" -> "validation"
      [] row.enabled /\ ~row.rule_file -> "rule file not found"
      [] OTHER -> "none"

\* source_loader.py 73-92
RECURSIVE LoadLoop(_, _, _)
LoadLoop(rows, i, configs) ==
    IF i > Len(rows) THEN [raised |-> FALSE, value |-> configs]
    ELSE LET row == rows[i]
         IN IF ~row.has_id THEN LoadLoop(rows, i + 1, configs)
            ELSE IF PrepareRaises(row) \/ ConfigError(row) # "none"
                 THEN [raised |-> TRUE, value |-> << >>]
                 ELSE IF ~row.enabled THEN LoadLoop(rows, i + 1, configs)
                      ELSE LoadLoop(rows, i + 1, Append(configs, i))

load_sources(rows) == LoadLoop(rows, 1, << >>)

\* source_loader.py 95-115
RECURSIVE ValidateLoop(_, _, _)
ValidateLoop(rows, i, triples) ==
    IF i > Len(rows) THEN [raised |-> FALSE, value |-> triples]
    ELSE LET row == rows[i]
         IN IF ~row.has_id THEN ValidateLoop(rows, i + 1, triples)
            ELSE IF PrepareRaises(row) THEN [raised |-> TRUE, value |-> << >>]
                 ELSE IF ConfigError(row) # "none"
                      THEN ValidateLoop(rows, i + 1,
                               Append(triples, [source_id |-> i, ok |-> FALSE,
                                                detail |-> ConfigError(row)]))
                      ELSE ValidateLoop(rows, i + 1,
                               Append(triples, [source_id |-> i, ok |-> TRUE,
                                                detail |-> IF row.enabled THEN "ok"
                                                           ELSE "disabled"]))

validate_sources(rows) == ValidateLoop(rows, 1, << >>)

InitSources ==
    /\ \E rows \in Registries :
           loader = [pc |-> "call", rows |-> rows, raised |-> FALSE, value |-> << >>]
    /\ latest_update = << >>
    /\ ckpt_texts = << >>
    /\ ckpt_call = << >>
    /\ planner = << >>
    /\ pipeline_log = << >>
    /\ SharedAtRest
    /\ CrawlAtRest
    /\ FetchAtRest
    /\ StoreAtRest
    /\ ProbeAtRest
    /\ RunsAtRest

LoaderCall(op, result) ==
    /\ loader.pc = "call"
    /\ loader' = [loader EXCEPT !.pc = op, !.raised = result.raised, !.value = result.value]
    /\ UNCHANGED << crawlVars, fetchVars, storeVars, probe, runsVars,
                    latest_update, ckpt_texts, ckpt_call, planner, pipeline_log, sharedVars >>

LoadSources == LoaderCall("loaded", load_sources(loader.rows))

ValidateSources == LoaderCall("validated", validate_sources(loader.rows))

NextSources == LoadSources \/ ValidateSources

SpecSources == InitSources /\ [][NextSources]_vars

\* ===================================================================
\* The run of Spec with a record of what the page loop was given: the
\* candidate of the last pass through the per-entity pipeline, and the pages
\* on which an attempt of a job was ended by an exception.
MaxPipelineCands == 3

NoCandidate == [job |-> Null, page |-> Null, shape |-> << >>, raised |-> FALSE]

InitPipeline ==
    /\ concurrency \in 1..MaxConcurrency
    /\ supply = MaxPipelineCands
    /\ \E n \in 1..MaxJobs : \E kinds \in Plans(n) :
           job = [id \in 1..n |-> NewJob(id, kinds[id])]
    /\ queue = [i \in 1..Cardinality(DOMAIN job) |-> i]
    /\ mirror = queue
    /\ unfinished = Len(queue)
    /\ worker = [w \in 1..concurrency |-> IdleWorker]
    /\ cpu = Null
    /\ checkpoint = NoCheckpoint
    /\ seen = {}
    /\ results = [t \in Types |-> << >>]
    /\ results_index = [t \in Types |-> << >>]
    /\ metrics = [n \in MetricNames |-> 0]
    /\ source_stats = << >>
    /\ quarantine = << >>
    /\ run = [pc |-> "running", committed |-> [t \in Types |-> << >>], manifests |-> << >>]
    /\ reenq = [id \in DOMAIN job |-> 0]
    /\ considered = 0
    /\ pipeline_log = [last |-> NoCandidate, failed_on |-> {}, parse_failed |-> {}]
    /\ latest_update = << >>
    /\ ckpt_texts = << >>
    /\ ckpt_call = << >>
    /\ planner = << >>
    /\ loader = << >>
    /\ SharedAtRest
    /\ FetchAtRest
    /\ StoreAtRest
    /\ ProbeAtRest
    /\ RunsAtRest

\* main.py 174-215: Entity, with the candidate and a failure written down
EntityLogged(w, shape) ==
    /\ Entity(w, shape)
    /\ LET j == job[worker[w].job]
           raised == NormaliseRaises(Candidate(shape, j.entity_type, j.source_id))
       IN pipeline_log' =
              [last |-> [job |-> j.job_id, page |-> worker[w].idx, shape |-> shape,
                         raised |-> raised],
               failed_on |-> IF raised
                             THEN pipeline_log.failed_on \cup {<< j.job_id, worker[w].idx >>}
                             ELSE pipeline_log.failed_on,
               parse_failed |-> pipeline_log.parse_failed]
    /\ UNCHANGED << fetchVars, storeVars, probe, runsVars, latest_update, ckpt_texts,
                    ckpt_call, planner, loader, sharedVars >>

\* main.py 164-173: ExtractRaises, with job, attempt and page written down
ExtractRaisesLogged(w) ==
    /\ ExtractRaises(w)
    /\ pipeline_log' = [pipeline_log EXCEPT !.parse_failed =
           @ \cup {<< worker[w].job, job[worker[w].job].attempts, worker[w].idx >>}]
    /\ UNCHANGED << fetchVars, storeVars, probe, runsVars, latest_update, ckpt_texts,
                    ckpt_call, planner, loader, sharedVars >>

NextPipeline ==
    \/ \E w \in Workers : Dequeue(w) /\ UNCHANGED outsideCrawl
    \/ \E w \in Workers : TimeoutContinue(w)
    \/ \E w \in Workers : BreakUnbound(w) /\ UNCHANGED outsideCrawl
    \/ \E w \in Workers : BreakRuleFails(w) /\ UNCHANGED outsideCrawl
    \/ \E w \in Workers : BreakStart(w) /\ UNCHANGED outsideCrawl
    \/ \E w \in Workers : \E o \in FetchOutcomes : \E x \in ExtraLists :
           FetchInitial(w, o, x) /\ UNCHANGED outsideCrawl
    \/ \E w \in Workers : \E o \in FetchOutcomes : FetchExtra(w, o) /\ UNCHANGED outsideCrawl
    \/ \E w \in Workers : SkipPage(w) /\ UNCHANGED outsideCrawl
    \/ \E w \in Workers : \E n \in 0..MaxCands : Extract(w, n) /\ UNCHANGED outsideCrawl
    \/ \E w \in Workers : ExtractRaisesLogged(w)
    \/ \E w \in Workers : \E shape \in CandShapes : EntityLogged(w, shape)
    \/ \E w \in Workers : Finish(w) /\ UNCHANGED outsideCrawl
    \/ GatherRaises /\ UNCHANGED outsideCrawl
    \/ Commit /\ UNCHANGED outsideCrawl

SpecPipeline == InitPipeline /\ [][NextPipeline]_vars

\* ===================================================================
\* JobQueue at the start of run_crawl (main.py 274-277, queue.py 18-64).
\* SpecQueue: the mirror file may hold the jobs a run left behind that did
\* not end; run_crawl builds its JobQueue over it, clears it, enqueues the
\* planned jobs and creates the workers, whose steps are the actions of Spec.
\* The pages of these runs hold no candidates, so no checkpoint is saved and
\* no page is skipped.
MaxLeftover == 2

\* the job_ids of an earlier run
LeftoverIds == 11..(10 + MaxLeftover)

MirrorFiles ==
    { lines \in SeqsUpTo({Null} \cup LeftoverIds, MaxLeftover) :
        \A i, k \in 1..Len(lines) : (i # k /\ lines[i] # Null) => lines[i] # lines[k] }

InitQueue ==
    /\ concurrency \in 1..MaxConcurrency
    /\ supply = 0
    /\ \E n \in 1..MaxJobs : \E kinds \in Plans(n) :
           job = [id \in 1..n |-> NewJob(id, kinds[id])]
    /\ queue = << >>
    /\ mirror \in MirrorFiles
    /\ unfinished = 0
    /\ worker = [w \in 1..concurrency |-> IdleWorker]
    /\ cpu = Null
    /\ checkpoint = NoCheckpoint
    /\ seen = {}
    /\ results = [t \in Types |-> << >>]
    /\ results_index = [t \in Types |-> << >>]
    /\ metrics = [n \in MetricNames |-> 0]
    /\ source_stats = << >>
    /\ quarantine = << >>
    /\ run = [pc |-> "construct", committed |-> [t \in Types |-> << >>], manifests |-> << >>]
    /\ reenq = [id \in DOMAIN job |-> 0]
    /\ considered = 0
    /\ startup = [found |-> mirror, enqueued |-> 0, started |-> FALSE, at_start |-> << >>]
    /\ etag_file = << >>
    /\ etag_writers = << >>
    /\ robots_lock = Null
    /\ robots_calls = << >>
    /\ FetchAtRest
    /\ StoreAtRest
    /\ ProbeAtRest
    /\ RunsAtRest
    /\ UnitAtRest

queueFrame == << concurrency, supply, job, worker, cpu, checkpoint, seen, results,
                 results_index, metrics, source_stats, quarantine, reenq, considered,
                 fetchVars, storeVars, probe, runsVars, unitVars, etag_file, etag_writers,
                 robots_lock, robots_calls >>

\* main.py 274 and queue.py 18-35: JobQueue(path=...) replays the mirror file
NewJobQueue ==
    /\ run.pc = "construct"
    /\ queue' = _load_from_disk(mirror)
    /\ unfinished' = Len(queue')
    /\ run' = [run EXCEPT !.pc = "clear"]
    /\ UNCHANGED << mirror, startup, queueFrame >>

\* main.py 275 and queue.py 49-59: every queued job is taken and marked done,
\* the file is truncated
ClearQueue ==
    /\ run.pc = "clear"
    /\ queue' = << >>
    /\ unfinished' = unfinished - Len(queue)
    /\ mirror' = << >>
    /\ run' = [run EXCEPT !.pc = "enqueue"]
    /\ UNCHANGED << startup, queueFrame >>

\* main.py 276-277 and queue.py 61-64: the next planned job is put and the
\* file rewritten
Enqueue ==
    /\ run.pc = "enqueue"
    /\ startup.enqueued < Cardinality(JobIds)
    /\ queue' = Append(queue, startup.enqueued + 1)
    /\ unfinished' = unfinished + 1
    /\ mirror' = _persist(queue')
    /\ startup' = [startup EXCEPT !.enqueued = @ + 1]
    /\ UNCHANGED << run, queueFrame >>

\* main.py 279-330: the worker tasks are created
StartWorkers ==
    /\ run.pc = "enqueue"
    /\ startup.enqueued = Cardinality(JobIds)
    /\ run' = [run EXCEPT !.pc = "running"]
    /\ startup' = [startup EXCEPT !.started = TRUE, !.at_start = queue]
    /\ UNCHANGED << queue, mirror, unfinished, queueFrame >>

NextQueue ==
    \/ NewJobQueue
    \/ ClearQueue
    \/ Enqueue
    \/ StartWorkers
    \/ \E w \in Workers : Dequeue(w) /\ UNCHANGED outsideCrawl
    \/ \E w \in Workers : TimeoutContinue(w)
    \/ \E w \in Workers : BreakUnbound(w) /\ UNCHANGED outsideCrawl
    \/ \E w \in Workers : BreakRuleFails(w) /\ UNCHANGED outsideCrawl
    \/ \E w \in Workers : BreakStart(w) /\ UNCHANGED outsideCrawl
    \/ \E w \in Workers : \E o \in FetchOutcomes : \E x \in ExtraLists :
           FetchInitial(w, o, x) /\ UNCHANGED outsideCrawl
    \/ \E w \in Workers : \E o \in FetchOutcomes : FetchExtra(w, o) /\ UNCHANGED outsideCrawl
    \/ \E w \in Workers : Extract(w, 0) /\ UNCHANGED outsideCrawl
    \/ \E w \in Workers : ExtractRaises(w) /\ UNCHANGED outsideCrawl
    \/ \E w \in Workers : Finish(w) /\ UNCHANGED outsideCrawl
    \/ GatherRaises /\ UNCHANGED outsideCrawl
    \/ Commit /\ UNCHANGED outsideCrawl

SpecQueue == InitQueue /\ [][NextQueue]_vars

\* ===================================================================
\* ETagCache.update from several workers (app/fetch/etag_cache.py 39-52).
\* SpecCacheFile: up to MaxUpdaters calls of update are in progress at once,
\* each from the fetch_document of another worker.  The entry is set on the
\* event loop; the file is written by a thread of the default executor
\* (asyncio.to_thread), one thread per call.
MaxUpdaters == 2

Updaters == 1..MaxUpdaters

EmptyFile == [kind |-> "empty", data |-> << >>]

\* the file as it is when two handles wrote over each other
GarbledFile == [kind |-> "garbled", data |-> << >>]

\* etag_cache.py 51-52: orjson.dumps of version and index
CacheText(index) == [kind |-> "json", data |-> index]

IdleUpdater == [pc |-> "idle", url |-> Null, text |-> EmptyFile]

InitCacheFile ==
    /\ conditional_index = << >>
    /\ etag_file = [content |-> EmptyFile, open |-> {}]
    /\ etag_writers = [c \in Updaters |-> IdleUpdater]
    /\ startup = << >>
    /\ robots_lock = Null
    /\ robots_calls = << >>
    /\ log_level = "ERROR"
    /\ robots_cache = << >>
    /\ fetch_metrics = << >>
    /\ snapshots = 0
    /\ call = << >>
    /\ net = << >>
    /\ CrawlAtRest
    /\ StoreAtRest
    /\ ProbeAtRest
    /\ RunsAtRest
    /\ UnitAtRest

cacheFileFrame == << log_level, robots_cache, fetch_metrics, snapshots, call, net, crawlVars,
                     storeVars, probe, runsVars, unitVars, startup, robots_lock, robots_calls >>

\* etag_cache.py 40-48: the entry is set and _write_payload handed to a thread
UpdateCalled(c, url, etag) ==
    /\ etag_writers[c].pc = "idle"
    /\ conditional_index' = update(conditional_index, url, etag, Null)
    /\ etag_writers' = [etag_writers EXCEPT ![c].pc = "submitted", ![c].url = url]
    /\ UNCHANGED << etag_file, cacheFileFrame >>

\* etag_cache.py 51 and the dumps of 52: the thread serialises the index as
\* it is then
ThreadDumps(c) ==
    /\ etag_writers[c].pc = "submitted"
    /\ etag_writers' = [etag_writers EXCEPT ![c].pc = "dumped",
                                            ![c].text = CacheText(conditional_index)]
    /\ UNCHANGED << conditional_index, etag_file, cacheFileFrame >>

\* the open of Path.write_text (mode "w"): the file is truncated
ThreadOpens(c) ==
    /\ etag_writers[c].pc = "dumped"
    /\ etag_file' = [content |-> EmptyFile, open |-> etag_file.open \cup {c}]
    /\ etag_writers' = [etag_writers EXCEPT ![c].pc = "open"]
    /\ UNCHANGED << conditional_index, cacheFileFrame >>

\* the text written through a handle at offset 0 over what the file holds: a
\* longer text that another handle wrote in the meantime keeps its tail
WrittenOver(content, text) ==
    IF content.kind = "empty" THEN text
    ELSE IF content.kind = "json" /\
            Cardinality(DOMAIN content.data) <= Cardinality(DOMAIN text.data)
         THEN text
         ELSE GarbledFile

\* the write and close of Path.write_text, then the return of update
ThreadWrites(c) ==
    /\ etag_writers[c].pc = "open"
    /\ etag_file' = [content |-> WrittenOver(etag_file.content, etag_writers[c].text),
                     open |-> etag_file.open \ {c}]
    /\ etag_writers' = [etag_writers EXCEPT ![c].pc = "done"]
    /\ UNCHANGED << conditional_index, cacheFileFrame >>

NextCacheFile ==
    \/ \E c \in Updaters : \E url \in CacheUrls : \E etag \in Tags : UpdateCalled(c, url, etag)
    \/ \E c \in Updaters : ThreadDumps(c)
    \/ \E c \in Updaters : ThreadOpens(c)
    \/ \E c \in Updaters : ThreadWrites(c)

SpecCacheFile == InitCacheFile /\ [][NextCacheFile]_vars

\* ===================================================================
\* RobotsCache.allowed from several workers (app/fetch/robots.py 21-42).
\* SpecRobots: up to MaxAllowedCalls calls of allowed() are in progress at
\* once, for URLs of two hosts and a file:// URL.
MaxAllowedCalls == 3

AllowedCalls == 1..MaxAllowedCalls

\* a lock that is always found free
locked_never(lock) == FALSE

\* asyncio.Lock.locked
locked(lock) == lock # Null

\* waited: the call found the lock held; fetched: the call fetched robots.txt
IdleAllowed ==
    [pc |-> "idle", url |-> Null, waited |-> FALSE, fetched |-> FALSE, answer |-> FALSE]

InitRobots ==
    /\ robots_cache = << >>
    /\ robots_lock = Null
    /\ robots_calls = [c \in AllowedCalls |-> IdleAllowed]
    /\ startup = << >>
    /\ etag_file = << >>
    /\ etag_writers = << >>
    /\ log_level = "ERROR"
    /\ conditional_index = << >>
    /\ fetch_metrics = << >>
    /\ snapshots = 0
    /\ call = << >>
    /\ net = << >>
    /\ CrawlAtRest
    /\ StoreAtRest
    /\ ProbeAtRest
    /\ RunsAtRest
    /\ UnitAtRest

robotsFrame == << log_level, conditional_index, fetch_metrics, snapshots, call, net, crawlVars,
                  storeVars, probe, runsVars, unitVars, startup, etag_file, etag_writers >>

\* robots.py 23-27: a file URL is allowed at once; any other call goes for
\* the lock
AllowedCalled(c, url) ==
    /\ robots_calls[c].pc = "idle"
    /\ robots_calls' = [robots_calls EXCEPT ![c] =
           IF url.scheme = "file"
           THEN [@ EXCEPT !.pc = "returned", !.url = url, !.answer = TRUE]
           ELSE [@ EXCEPT !.pc = "lock", !.url = url, !.waited = locked(robots_lock)]]
    /\ UNCHANGED << robots_cache, robots_lock, robotsFrame >>

\* robots.py 27-33, 41-42: the call gets the lock.  A cached host is answered
\* and the lock released without a suspension; otherwise the lock stays held
\* while robots.txt is fetched.
Acquire(c) ==
    /\ robots_calls[c].pc = "lock"
    /\ ~locked(robots_lock)
    /\ LET url == robots_calls[c].url
       IN IF url.netloc \in DOMAIN robots_cache
          THEN /\ robots_calls' = [robots_calls EXCEPT ![c].pc = "returned",
                       ![c].answer = can_fetch(robots_cache[url.netloc], url)]
               /\ UNCHANGED robots_lock
          ELSE /\ robots_calls' = [robots_calls EXCEPT ![c].pc = "fetching"]
               /\ robots_lock' = c
    /\ UNCHANGED << robots_cache, robotsFrame >>

\* robots.py 33-42: the fetch of robots.txt ends with outcome r; the policy is
\* cached, the lock released, the URL judged
RobotsFetched(c, r) ==
    /\ robots_calls[c].pc = "fetching"
    /\ LET url == robots_calls[c].url
           policy == RobotsPolicy(r)
       IN /\ robots_cache' = (url.netloc :> policy) @@ robots_cache
          /\ robots_calls' = [robots_calls EXCEPT ![c].pc = "returned", ![c].fetched = TRUE,
                                                  ![c].answer = can_fetch(policy, url)]
    /\ robots_lock' = Null
    /\ UNCHANGED robotsFrame

NextRobots ==
    \/ \E c \in AllowedCalls : \E url \in FetchUrls : AllowedCalled(c, url)
    \/ \E c \in AllowedCalls : Acquire(c)
    \/ \E c \in AllowedCalls : \E r \in RobotsOutcomes : RobotsFetched(c, r)

SpecRobots == InitRobots /\ [][NextRobots]_vars

\* ===================================================================
\* The per-source statistics (main.py 115-118, 186-208, 343-353).
\* SpecStats: the run of Spec over a plan with one job per source, as
\* plan_jobs makes it: job i crawls source i.
SourceKinds(n) ==
    { kinds \in [1..n -> [source_id : 1..n, entity_type : Types]] :
        /\ kinds[1].entity_type = "events"
        /\ \A i \in 1..n : kinds[i].source_id = i }

InitStats ==
    /\ concurrency \in 1..MaxConcurrency
    /\ supply = MaxPipelineCands
    /\ \E n \in 1..MaxJobs : \E kinds \in SourceKinds(n) :
           job = [id \in 1..n |-> NewJob(id, kinds[id])]
    /\ queue = [i \in 1..Cardinality(DOMAIN job) |-> i]
    /\ mirror = queue
    /\ unfinished = Len(queue)
    /\ worker = [w \in 1..concurrency |-> IdleWorker]
    /\ cpu = Null
    /\ checkpoint = NoCheckpoint
    /\ seen = {}
    /\ results = [t \in Types |-> << >>]
    /\ results_index = [t \in Types |-> << >>]
    /\ metrics = [n \in MetricNames |-> 0]
    /\ source_stats = << >>
    /\ quarantine = << >>
    /\ run = [pc |-> "running", committed |-> [t \in Types |-> << >>], manifests |-> << >>]
    /\ reenq = [id \in DOMAIN job |-> 0]
    /\ considered = 0
    /\ OutsideCrawlAtRest

SpecStats == InitStats /\ [][Next]_vars

\* the sum of one statistic over the sources
RECURSIVE SumOver(_, _)
SumOver(stats, field) ==
    IF DOMAIN stats = {} THEN 0
    ELSE LET src == CHOOSE x \in DOMAIN stats : TRUE
         IN stats[src][field] + SumOver([k \in DOMAIN stats \ {src} |-> stats[k]], field)

\* ================================================================ claims
Range(list) == { list[i] : i \in 1..Len(list) }

AllWorkersExited == \A w \in Workers : worker[w].pc \in {"done", "raised"}

\* C1: for every concurrency >= 1 and every non-empty plan, no worker task
\* raises, run_crawl is not left by an exception, and the manifest it writes
\* has exit_code 0.
C1_WorkersFinishAndCommit ==
    /\ \A w \in Workers : worker[w].pc # "raised"
    /\ run.pc # "raised"
    /\ run.pc = "done" => Len(run.manifests) = 1 /\ run.manifests[1].exit_code = 0

\* C2: once all workers have exited, every planned job is succeeded or failed
\* and the queue is empty.
C2_AllJobsSettled ==
    AllWorkersExited =>
        /\ \A id \in JobIds : job[id].status \in {"succeeded", "failed"}
        /\ queue = << >>

\* C3: accepted entities have pairwise different dedup keys, and each type's
\* results list holds exactly the entities of that type's results index, one
\* per key.
C3_OneEntityPerKey ==
    /\ \A t, u \in Types : \A i \in 1..Len(results[t]) : \A k \in 1..Len(results[u]) :
           entity_key(results[t][i]) = entity_key(results[u][k]) => t = u /\ i = k
    /\ \A t \in Types :
           /\ { entity_key(e) : e \in Range(results[t]) } = DOMAIN results_index[t]
           /\ Len(results[t]) = Cardinality(DOMAIN results_index[t])
           /\ \A e \in Range(results[t]) : results_index[t][entity_key(e)] = e

\* C3 witness: two entities accepted and a later candidate dropped as duplicate
C3_Witness ==
    /\ \E t \in Types : Len(results[t]) >= 2
    /\ metrics["duplicates"] >= 1

C5_CountersCoverCandidates ==
    metrics["entities_new"] + metrics["entities_updated"] + metrics["duplicates"]
        + metrics["validates_failed"] = considered

C7_ResumeOnlyOnMatch ==
    \A w \in Workers :
        worker[w].pc \in {"page", "entity"} =>
            LET cs == worker[w].checkpoint_state
                honoured == /\ cs # NoCheckpoint
                            /\ cs.job_id = worker[w].job
                            /\ cs.discovered_urls_hash = sorted(worker[w].discovered)
                first == IF honoured THEN cs.page_idx + 1 ELSE 0
            IN /\ worker[w].start_page = first
               /\ worker[w].pc = "entity" => worker[w].idx >= first

\* C7 witness: an attempt resumes behind a checkpointed page
C7_Witness ==
    \E w \in Workers : worker[w].pc = "page" /\ worker[w].start_page >= 1

\* C8: every accepted entity passes validation as stored and has only fields
\* that are properties of its type's schema.
C8_AcceptedValidAndPruned ==
    \A t \in Types :
        \A e \in Range(results[t]) \cup { results_index[t][k] : k \in DOMAIN results_index[t] } :
            /\ validate(t, e)
            /\ DOMAIN e \subseteq SchemaProperties(t)

\* C8 witness: entities of both types were accepted
C8_Witness == \A t \in Types : Len(results[t]) >= 1

\* C9: the step that quarantines a candidate bumps validates_failed and
\* quarantine_rows by one each and the rejects of exactly one source by one,
\* and leaves the deduplicator, the results and the index alone; the
\* quarantined candidate fails validation, and its cleaned form is never in the
\* results, the index or the committed tiers.
C9_RejectEffects ==
    /\ [][ Len(quarantine') > Len(quarantine) =>
             /\ Len(quarantine') = Len(quarantine) + 1
             /\ metrics' = [metrics EXCEPT !["validates_failed"] = @ + 1,
                                           !["quarantine_rows"] = @ + 1]
             /\ \E src \in DOMAIN source_stats :
                    source_stats' = [source_stats EXCEPT ![src].rejects = @ + 1]
             /\ UNCHANGED << seen, results, results_index >> ]_vars
    /\ [](\A q \in Range(quarantine) : \A t \in Types :
             LET clean == CleanEntity(t, q)
             IN /\ ~validate(TypeOfCode(q["type"]), CleanEntity(TypeOfCode(q["type"]), q))
                /\ clean \notin Range(results[t])
                /\ clean \notin Range(run.committed[t])
                /\ \A k \in DOMAIN results_index[t] : results_index[t][k] # clean)

\* C9 witness: a candidate was quarantined in a run that also accepted one
C9_Witness ==
    /\ Len(quarantine) >= 1
    /\ \E t \in Types : Len(results[t]) >= 1

\* C10: while candidates of the current page remain, the attempt stays in the
\* entity loop of that page, whatever happens to the current candidate.
C10_FailureDoesNotBlock ==
    [][ \A w \in Workers :
            (worker[w].pc = "entity" /\ worker[w].remaining > 1)
                => worker'[w].pc = "entity" ]_vars

\* C11: a call of fetch_document issues at most 4 requests; every request
\* before the last one ended in a transport error; a call that is still
\* requesting has seen nothing but transport errors; after a 4th transport
\* error the call has raised.
C11_BoundedRequests ==
    /\ Len(call.outcomes) <= 4
    /\ \A i \in 1..(Len(call.outcomes) - 1) : call.outcomes[i] = "transport_error"
    /\ call.pc = "request" => \A i \in 1..Len(call.outcomes) : call.outcomes[i] = "transport_error"
    /\ (Len(call.outcomes) = 4 /\ call.outcomes[4] = "transport_error") => call.pc = "raised"
    /\ call.result = "HTTPError" => Len(call.outcomes) = 4

\* C11 witness: a call raised the transport error of its 4th request
C11_Witness ==
    /\ call.pc = "raised"
    /\ call.result = "HTTPError"
    /\ Len(call.outcomes) = 4
    /\ call.outcomes[4] = "transport_error"

\* C12: the step in which a call receives a 304 response ends the call with
\* null, writes no snapshot, bumps unchanged_skips and http_3xx by one each and
\* replaces the cache entry of the URL by the ETag and Last-Modified of that
\* response.
C12_NotModified ==
    [][ (call.pc = "request" /\ net'.requests = net.requests + 1
            /\ call'.response.status = 304 /\ Len(call'.outcomes) > Len(call.outcomes)
            /\ call'.outcomes[Len(call'.outcomes)] = "response")
          => /\ call'.pc = "returned"
             /\ call'.result = "null"
             /\ snapshots' = snapshots
             /\ fetch_metrics'["unchanged_skips"] = fetch_metrics["unchanged_skips"] + 1
             /\ fetch_metrics'["http_3xx"] = fetch_metrics["http_3xx"] + 1
             /\ call.url \in DOMAIN conditional_index'
             /\ conditional_index'[call.url] =
                    [etag |-> call'.response.etag,
                     last_modified |-> call'.response.last_modified] ]_vars

\* C13: the step in which robots.allowed answers false for a call bumps
\* robots_disallow by one, ends the call with null, sends no request, writes
\* no snapshot and leaves the conditional cache and the other counters alone.
C13_RobotsDisallow ==
    [][ (net'.calls = net.calls + 1 /\ ~call'.allowed)
          => /\ call'.pc = "returned"
             /\ call'.result = "null"
             /\ fetch_metrics' = [fetch_metrics EXCEPT !["robots_disallow"] = @ + 1]
             /\ net'.requests = net.requests
             /\ snapshots' = snapshots
             /\ conditional_index' = conditional_index ]_vars

\* C14: a host whose robots.txt fetch ended in a status >= 400 or a transport
\* error has an empty cached policy from then on, and every call for a URL of
\* that host, like every call for a file:// URL, is allowed; a call for a
\* file:// URL fetches no robots.txt.
C14_RobotsFailOpen ==
    /\ [](\A h \in net.failed : h \in DOMAIN robots_cache /\ robots_cache[h] = {})
    /\ [](call.pc # "none" =>
             ((call.url.scheme = "file" \/ call.url.netloc \in net.failed) => call.allowed))
    /\ [][ (net'.calls = net.calls + 1 /\ call'.url.scheme = "file")
             => net'.robots_fetches = net.robots_fetches /\ robots_cache' = robots_cache ]_vars

\* C14 witness: the second call goes to a host whose robots.txt failed in the
\* first call; it is allowed without a second robots.txt fetch
C14_Witness ==
    /\ net.calls = 2
    /\ net.robots_fetches = 1
    /\ call.pc = "request"
    /\ call.url.netloc \in net.failed
    /\ call.allowed

\* C15: a run that follows a finished run of the same source, with the
\* conditional cache file kept, and whose every request the server answered
\* with 304, ends with http_3xx equal to the number of URLs it requested,
\* entities_new 0, and duplicates equal to the number of entities the run
\* before accepted.
C15_SecondRunSkipsUnchanged ==
    ( /\ run.pc = "done"
      /\ prev.done
      /\ served.requests >= 1
      /\ served.not_modified = served.requests )
    => /\ fetch_metrics["http_3xx"] = served.requests
       /\ metrics["entities_new"] = 0
       /\ metrics["duplicates"] = prev.accepted

\* C21: after any sequence of update calls, the headers for a URL are those
\* of the latest update for that URL: If-None-Match is its etag and
\* If-Modified-Since its last_modified, each left out (Null) when the value
\* was null or empty; a URL never updated gets no header; so an update for
\* another URL changes nothing for this one.
C21_LatestUpdateWins ==
    /\ [](\A u \in CacheUrls :
             headers_for(conditional_index, u) =
                 [if_none_match |-> latest_update[u].etag,
                  if_modified_since |-> latest_update[u].last_modified])
    /\ [][\A u \in CacheUrls :
              latest_update'[u] = latest_update[u] =>
                  headers_for(conditional_index', u) = headers_for(conditional_index, u)]_vars

\* C21 witness: a URL updated twice, last without an ETag, next to another
\* URL that has one
C21_Witness ==
    \E u, v \in CacheUrls :
        /\ u # v
        /\ latest_update[u].n = 2
        /\ latest_update[u].etag = Null
        /\ latest_update[u].last_modified # Null
        /\ latest_update[v].etag # Null

C23_LoadNeverRaises ==
    ckpt_call.op = "load" =>
        /\ ~ckpt_call.result.raised
        /\ ( \/ ckpt_call.run_id \notin DOMAIN ckpt_texts
             \/ ckpt_texts[ckpt_call.run_id] \in CorruptTexts )
           => ckpt_call.result.value = NoCheckpoint

\* C24: plan_jobs returns at most limit jobs: the jobs of the first sources,
\* in input order, whose type is entity_type (of all sources for "all"), each
\* with the base_url of its source as url and a job_id of its own.
C24_PlanWithinLimit ==
    planner.pc = "planned" =>
        LET matching == { i \in 1..Len(planner.sources) :
                              \/ planner.entity_type = "all"
                              \/ planner.sources[i] = planner.entity_type }
            jobs == planner.jobs
        IN /\ Len(jobs) <= planner.limit
           /\ Len(jobs) <= Cardinality(matching)
           /\ \A k \in 1..Len(jobs) :
                  /\ jobs[k].source_id \in matching
                  /\ Cardinality({ i \in matching : i < jobs[k].source_id }) = k - 1
                  /\ jobs[k].url = SourceOf(planner.sources, jobs[k].source_id).base_url
                  /\ jobs[k].entity_type = planner.sources[jobs[k].source_id]
           /\ Len(jobs) < planner.limit => Len(jobs) = Cardinality(matching)
           /\ \A k, l \in 1..Len(jobs) : k # l => jobs[k].job_id # jobs[l].job_id

\* C25: load_sources raises exactly when a row that is enabled is invalid (a
\* bad field or no rule file) and otherwise returns the enabled rows in file
\* order, so a disabled row never makes it raise; validate_sources never
\* raises and returns one triple per row: "disabled" for a disabled row, "ok"
\* for a valid enabled row, ok = false for an invalid enabled row.  Rows are
\* the lines that have a source_id.
C25_StrictLoadLenientValidate ==
    LET rows == loader.rows
        Rows == { i \in 1..Len(rows) : rows[i].has_id }
        Invalid(i) == rows[i].fields # "valid" \/ ~rows[i].rule_file
        Enabled == { i \in Rows : rows[i].enabled }
    IN /\ loader.pc = "loaded" =>
              /\ loader.raised <=> \E i \in Enabled : Invalid(i)
              /\ ~loader.raised =>
                     /\ Range(loader.value) = Enabled
                     /\ \A k, l \in 1..Len(loader.value) :
                            k < l => loader.value[k] < loader.value[l]
       /\ loader.pc = "validated" =>
              /\ ~loader.raised
              /\ Len(loader.value) = Cardinality(Rows)
              /\ \A k \in 1..Len(loader.value) :
                     LET i == loader.value[k].source_id
                     IN /\ i \in Rows
                        /\ Cardinality({ q \in Rows : q < i }) = k - 1
                        /\ ~rows[i].enabled =>
                               loader.value[k].ok /\ loader.value[k].detail = "disabled"
                        /\ rows[i].enabled /\ ~Invalid(i) =>
                               loader.value[k].ok /\ loader.value[k].detail = "ok"
                        /\ rows[i].enabled /\ Invalid(i) => ~loader.value[k].ok

\* C26: within a run no counter of the registry goes down, whatever the
\* workers do, and the metrics in the manifest are the counters of the
\* pipeline as they are when the manifest is written.
C26_CountersMonotone ==
    [][ /\ sched'.clock = sched.clock =>
               /\ \A n \in MetricNames : metrics'[n] >= metrics[n]
               /\ \A n \in FetchMetricNames : fetch_metrics'[n] >= fetch_metrics[n]
        /\ (run'.pc = "done" /\ run.pc # "done") =>
               /\ Len(run'.manifests) = 1
               /\ run'.manifests[1].metrics = metrics' ]_vars

\* C26 witness: the manifest of a second run is written after pages were
\* fetched and candidates were accepted, dropped as duplicates and rejected
C26_Witness ==
    /\ run.pc = "done"
    /\ prev.done
    /\ fetch_metrics["pages_fetched"] >= 2
    /\ metrics["entities_new"] >= 1
    /\ metrics["duplicates"] + metrics["validates_failed"] >= 1
    /\ run.manifests[1].metrics = metrics

\* C27: a worker that takes a job from the queue holds no job that it took
\* before and has not processed: every dequeued job goes through job
\* processing and task_done before the worker dequeues again.
C27_EveryDequeuedJobProcessed ==
    [][ Len(queue') < Len(queue) =>
            \E w \in Workers :
                /\ worker[w].job = Null
                /\ worker'[w].job = Head(queue) ]_vars

\* C28: the status of a job changes only from pending to in_progress, from
\* in_progress to succeeded, retry or failed, and from retry to in_progress:
\* succeeded and failed are final, and retry and failed are only reached from
\* in_progress.
C28_StatusTransitions ==
    [][ \A id \in JobIds :
            job'[id].status # job[id].status =>
                << job[id].status, job'[id].status >> \in
                    { << "pending", "in_progress" >>, << "in_progress", "succeeded" >>,
                      << "in_progress", "retry" >>, << "in_progress", "failed" >>,
                      << "retry", "in_progress" >> } ]_vars

\* C29: a validated candidate whose key or near-key is known and has an
\* entity in the results index of its type is merged into such an entity,
\* and when the merge changed a field, entities_updated and the source's
\* rows_updated go up by one.
C29_HitIsMerged ==
    [][ (considered' = considered + 1 /\ ~pipeline_log'.last.raised) =>
            LET last == pipeline_log'.last
                j == job[last.job]
                entity == Normalise(Candidate(last.shape, j.entity_type, j.source_id))
                t == TypeOfCode(entity["type"])
                clean == CleanEntity(t, entity)
                hits == ({entity_key(clean)} \cup nearby_keys(clean))
                            \cap DOMAIN results_index[t]
            IN (validate(t, clean) /\ is_duplicate(seen, clean) /\ hits # {}) =>
                   \E k \in hits :
                       LET m == merge(results_index[t][k], clean)
                       IN /\ results_index'[t][k] = m[1]
                          /\ m[2] =>
                                 /\ metrics'["entities_updated"] =
                                        metrics["entities_updated"] + 1
                                 /\ source_stats'[j.source_id].rows_updated =
                                        source_stats[j.source_id].rows_updated + 1 ]_vars

C16_OneRowPerKey ==
    /\ \A t \in Types : \A i, k \in 1..Len(tables[t]) :
           tables[t][i]["dedup_key"] = tables[t][k]["dedup_key"] => i = k
    /\ LET t == last_write.entity_type
           rows == [i \in 1..Len(last_write.entities) |-> Row(last_write.entities[i])]
       IN ~IntegrityError(rows) =>
              \A i \in 1..Len(rows) : Conflicts(tables[t], rows[i]) # {}

\* C16 witness: a commit met a row with its dedup_key, and the table still has
\* one row
C16_Witness ==
    /\ last_write.n = 2
    /\ Len(tables[last_write.entity_type]) = 1
    /\ Len(last_write.before) = 1
    /\ ~IntegrityError([i \in 1..Len(last_write.entities) |-> Row(last_write.entities[i])])

\* C17: after a commit of one entity whose dedup_key was in the table, the
\* row has source_id, title, venue_name, address and city of the old row and
\* every other column from the incoming row.
C17_UpsertColumns ==
    LET t == last_write.entity_type
        rows == [i \in 1..Len(last_write.entities) |-> Row(last_write.entities[i])]
    IN (Len(rows) = 1 /\ ~IntegrityError(rows) /\ Conflicts(last_write.before, rows[1]) # {})
         => \A i \in Conflicts(last_write.before, rows[1]) :
                \A c \in Columns \ {"dedup_key"} :
                    tables[t][i][c] =
                        IF c \in {"source_id", "title", "venue_name", "address", "city"}
                        THEN last_write.before[i][c] ELSE rows[1][c]

\* C18: in a run whose run_id the scheduler took from a leftover checkpoint
\* file, an attempt that loaded the checkpoint an earlier run left and
\* discovered the URL set the checkpoint was written for starts its page loop
\* at page_idx + 1 of that checkpoint.
C18_ResumeFromLeftover ==
    \A w \in Workers :
        LET cs == worker[w].checkpoint_state
        IN ( /\ run.pc = "running"
             /\ worker[w].pc \in {"page", "entity"}
             /\ cs # NoCheckpoint
             /\ cs.job_id \notin DOMAIN job
             /\ cs.discovered_urls_hash = discovered_hash(worker[w].discovered) )
           => worker[w].start_page = cs.page_idx + 1

\* C19: when run_schedule_loop has returned, it has called run_crawl once for
\* every configured job in each of its N ticks, and there are at least N
\* manifest files with distinct run_ids.
C19_ManifestPerTick ==
    sched.pc = "returned" =>
        /\ sched.clock - 1 = sched.ticks * sched.jobs
        /\ Cardinality(manifest_files) >= sched.ticks

\* C20: for two entities with the same title, venue, city and source, whichever
\* of them was remembered first, the other one is a duplicate when their start
\* days differ by exactly one and is none when they differ by two or more.
C20_NearDuplicateSymmetric ==
    LET day(e) == e["start"] \div 10
        apart == IF day(probe.a) >= day(probe.b) THEN day(probe.a) - day(probe.b)
                 ELSE day(probe.b) - day(probe.a)
    IN (probe.pc = "asked" /\ probe.a["title"] = probe.b["title"]) =>
           /\ apart = 1 => probe.answer
           /\ apart >= 2 => ~probe.answer

\* C20 witness: the later entity was remembered first and the earlier one,
\* at another hour of the day before, is found a duplicate
C20_Witness ==
    /\ probe.pc = "asked"
    /\ probe.first = "b"
    /\ probe.b["start"] = probe.a["start"] + 18
    /\ probe.a["title"] = probe.b["title"]
    /\ probe.answer

\* C31: after each completed enqueue, dequeue, task_done or clear, under every
\* interleaving of the workers, the mirror file lists exactly the jobs that
\* are in the in-memory queue, one per line in queue order; it is empty after
\* clear.
C31_MirrorIsQueue ==
    /\ run.pc \notin {"construct", "clear"} => mirror = queue
    /\ (run.pc = "enqueue" /\ startup.enqueued = 0) => mirror = << >>

\* C31 witness: the run found a mirror with jobs, cleared it, and a worker
\* has put a failed job back behind a job that is still queued
C31_Witness ==
    /\ run.pc = "running"
    /\ _load_from_disk(startup.found) # << >>
    /\ Len(queue) = 2
    /\ reenq[queue[2]] > 0
    /\ mirror = queue

\* C32: at every point of a run, each enqueued job that has not reached
\* succeeded or failed is recorded in the mirror file, so that the job can be
\* recovered from the mirror after a crash at that point.
C32_MirrorRecoversJobs ==
    \A id \in JobIds :
        (id <= startup.enqueued /\ job[id].status \notin {"succeeded", "failed"}) =>
            \E i \in 1..Len(mirror) : mirror[i] = id

\* C33: the jobs in the mirror file when run_crawl constructs its JobQueue are
\* replayed in file order and are still queued, ahead of the newly planned
\* jobs, when the workers of the run start.
C33_ReplayedJobsRun ==
    /\ run.pc = "clear" => queue = _load_from_disk(startup.found)
    /\ startup.started =>
           startup.at_start = _load_from_disk(startup.found) \o [i \in 1..startup.enqueued |-> i]

\* C34: with several jobs in one run, the checkpoint of one job is not
\* overwritten or deleted by another job: only a step of the attempt on job J
\* changes a checkpoint that J saved, so that a retry of J loads no
\* checkpoint of another job.
C34_CheckpointPerJob ==
    /\ [][ (checkpoint # NoCheckpoint /\ checkpoint' # checkpoint) =>
               (cpu # Null /\ worker[cpu].job = checkpoint.job_id) ]_vars
    /\ [](\A w \in Workers :
              (worker[w].pc = "fetch" /\ job[worker[w].job].attempts > 1) =>
                  worker[w].checkpoint_state.job_id \in {Null, worker[w].job})

\* C35: concurrent ETagCache.update calls of several workers are mutually
\* exclusive on the cache file: two writes of the file never overlap, and
\* once all updates have completed the file holds the entry of every URL of
\* the in-memory index.
C35_CacheWritesExclusive ==
    /\ Cardinality(etag_file.open) <= 1
    /\ (\A c \in Updaters : etag_writers[c].pc = "done") =>
           etag_file.content = CacheText(conditional_index)

C37_PageCommittedBeforeNext ==
    \A w \in Workers :
        /\ worker[w].idx <= Len(worker[w].pages)
        /\ Len(worker[w].pages) + Len(worker[w].pending) <= Len(worker[w].discovered)
        /\ (worker[w].pc = "fetch" /\ worker[w].pending # << >>) =>
               worker[w].idx = Len(worker[w].pages)

\* C38: when extraction raises on a page, parse_failures is incremented by
\* one, no entity of that page is accepted, the attempt continues with the
\* next page and the job is not marked retry or failed because of that page;
\* the attempt can still end succeeded.
C38_ParseFailureSkipsPage ==
    /\ [](metrics["parse_failures"] = Cardinality(pipeline_log.parse_failed))
    /\ [][ pipeline_log'.parse_failed # pipeline_log.parse_failed =>
               /\ metrics'["parse_failures"] = metrics["parse_failures"] + 1
               /\ results' = results
               /\ results_index' = results_index
               /\ job' = job
               /\ cpu' = cpu
               /\ worker'[cpu].pc = "page"
               /\ worker'[cpu].idx = worker[cpu].idx + 1 ]_vars

\* C38 witness: extraction raised on the first page of an attempt; the
\* attempt went on, accepted an entity of the second page and the job
\* succeeded in that attempt
C38_Witness ==
    \E id \in JobIds :
        /\ << id, job[id].attempts, 0 >> \in pipeline_log.parse_failed
        /\ job[id].status = "succeeded"
        /\ considered = 1
        /\ metrics["entities_new"] = 1
        /\ pipeline_log.last.job = id
        /\ pipeline_log.last.page = 1

\* C39: every exit from _process_job clears the logging context that was set
\* at its start: normal completion, the early return when the initial fetch
\* yields null, and an exception raised by any stage, the initial fetch
\* included.  A worker that has left _process_job has no context bound.
C39_ContextCleared ==
    \A w \in Workers : worker[w].pc \in {"done", "raised"} => worker[w].context = Null

\* C40: at every point between candidates the per-source statistics agree with
\* the counters and the results: the sum over the sources of rows_new equals
\* entities_new and the number of entities in the results lists (the counts
\* of the manifest), the sum of rows_updated equals entities_updated, and the
\* sum of rejects equals validates_failed and quarantine_rows.
C40_StatsAgree ==
    LET total == Len(results["events"]) + Len(results["sports"])
    IN /\ SumOver(source_stats, "rows_new") = metrics["entities_new"]
       /\ metrics["entities_new"] = total
       /\ SumOver(source_stats, "rows_updated") = metrics["entities_updated"]
       /\ SumOver(source_stats, "rejects") = metrics["validates_failed"]
       /\ metrics["validates_failed"] = metrics["quarantine_rows"]
       /\ run.pc = "done" =>
              /\ run.manifests[1].counts["events"] + run.manifests[1].counts["sports"] = total
              /\ run.manifests[1].source_stats = source_stats
              /\ run.manifests[1].metrics = metrics

\* C40 witness: the manifest of a run in which two sources each have a new
\* row and one of them a reject
C40_Witness ==
    /\ run.pc = "done"
    /\ DOMAIN source_stats = {1, 2}
    /\ source_stats[1].rows_new >= 1
    /\ source_stats[2].rows_new >= 1
    /\ SumOver(source_stats, "rejects") = 1
    /\ metrics["entities_new"] = 2

====
